---- MODULE Spec2Model ----
(***************************************************************************)
(* Model of the asynchronous task orchestrator of DOTbot                   *)
(* (src/app/services/task_orchestrator.py): TaskResult, CircuitBreaker and *)
(* TaskOrchestrator.                                                       *)
(*                                                                         *)
(* Execution model.  The orchestrator runs on one asyncio event loop, so   *)
(* the code between two suspension points of a coroutine is one atomic     *)
(* step.  Every action below is one such step: it starts where a coroutine *)
(* is resumed and runs to its next `await` that really suspends (or to its *)
(* end).  Task.cancel() makes the cancelled coroutine raise CancelledError *)
(* at its next resumption; CancelledError is a BaseException, so the       *)
(* `except Exception` clauses do not catch it.                             *)
(*                                                                         *)
(* Time.  `now` is the wall clock in seconds, read by datetime.utcnow()    *)
(* and time.time(); it advances in steps of one minute, the unit of the    *)
(* timeout budget.  A wait_for timeout fires at the first clock value at   *)
(* or after its due time and the clock does not pass a due timeout.  The   *)
(* retry sleeps (1..15 s) are shorter than the clock's resolution: a       *)
(* sleeping worker may wake at any later step.                             *)
(***************************************************************************)
EXTENDS Integers, Sequences, FiniteSets, TLC

\* ------------------------------------------------------------ bounds
MaxTasks == 2                  \* tasks submitted in one run
MaxLinks == 3                  \* links a discovery returns
MaxMinutes == 4                \* horizon of the clock, in minutes
MaxTimeoutMinutes == 2         \* largest timeout_minutes a request carries
NumDomains == 1                \* distinct sites submitted
MaxFailures == 6               \* failures recorded for one domain (breaker runs)
MaxCooldownMinutes == 6        \* horizon of the clock of the breaker runs

\* ------------------------------------------------- program constants
SecondsPerMinute == 60         \* timedelta(minutes=timeout_minutes)
MainPageTimeout == 300         \* wait_for(..., timeout=300)
MinRemainingSeconds == 60      \* remaining_time.total_seconds() < 60
MaxArticleTimeout == 180       \* min(180, ...)
MinBatchWait == 30             \* max(30, ...)
MaxBatchSize == 10             \* min(self.max_concurrent_articles, 10)
retry_count == 3               \* retry_count=3
MinRetryTimeout == 60          \* max(60, timeout_seconds // 2)
failure_threshold == 5         \* CircuitBreaker(failure_threshold=5)
timeout_seconds == 300         \* CircuitBreaker(timeout_seconds=300)
MaxBlockedDomains == 5         \* len(self.circuit_breaker.blocked_domains) > 5

VARIABLES
    max_concurrent_tasks,    \* self.max_concurrent_tasks, set at construction
    max_concurrent_articles, \* self.max_concurrent_articles, likewise
    now,               \* wall clock, seconds
    tasks,             \* self.tasks: task id -> TaskResult
    active_tasks,      \* keys of self.active_tasks
    routine,           \* per task id: the _execute_multi_depth_scrape coroutine
    batch_tasks,       \* per task id: the article tasks of the batch awaited
    task_semaphore,    \* free permits of self.task_semaphore
    article_semaphore, \* free permits of self.article_semaphore
    circuit_breaker,   \* self.circuit_breaker
    error_stats,       \* self.error_stats
    response           \* what the last query of the orchestrator returned

config == <<max_concurrent_tasks, max_concurrent_articles>>

vars == <<config, now, tasks, active_tasks, routine, batch_tasks, task_semaphore,
          article_semaphore, circuit_breaker, error_stats, response>>

TaskIds == 1..MaxTasks
Domains == 1..NumDomains
None == -1

Max(a, b) == IF a >= b THEN a ELSE b
Min(a, b) == IF a <= b THEN a ELSE b

\* ------------------------------------------------------- TaskStatus
PENDING == "pending"
RUNNING == "running"
COMPLETED == "completed"
FAILED == "failed"
PARTIAL == "partial"
CANCELLED == "cancelled"
TerminalStatus == {COMPLETED, FAILED, PARTIAL, CANCELLED}

\* update_progress that reports Partial for any failure (mutant).
update_progress_no_failed(tr, completed, failed) ==
    LET tr1 == [tr EXCEPT !.completed_items = completed,
                          !.failed_items = failed,
                          !.progress = [num |-> (completed + failed) * 100,
                                        den |-> IF tr.total_items >= 1
                                                THEN tr.total_items ELSE 1]]
    IN  IF completed + failed >= tr1.total_items
        THEN [tr1 EXCEPT !.completed_at = now,
                         !.status = IF failed = 0 THEN COMPLETED ELSE PARTIAL]
        ELSE tr1

\* update_progress without the progress assignment (mutant).
update_progress_stale(tr, completed, failed) ==
    LET tr1 == [tr EXCEPT !.completed_items = completed,
                          !.failed_items = failed]
    IN  IF completed + failed >= tr1.total_items
        THEN [tr1 EXCEPT !.completed_at = now,
                         !.status = IF failed = 0 THEN COMPLETED
                                    ELSE IF completed > 0 THEN PARTIAL
                                    ELSE FAILED]
        ELSE tr1

\* ------------------------------------------------------- TaskResult
\* progress is the float (completed + failed) / max(total, 1) * 100, kept
\* as the exact fraction num / den.  Of metadata only whether phase 3 has
\* stored its ai_reports is kept.
TaskResult ==
    [status |-> PENDING,
     progress |-> [num |-> 0, den |-> 1],
     total_items |-> 0,
     completed_items |-> 0,
     failed_items |-> 0,
     results |-> <<>>,
     errors |-> <<>>,
     completed_at |-> None,
     metadata |-> [ai_reports |-> FALSE]]

update_progress(tr, completed, failed) ==
    LET tr1 == [tr EXCEPT !.completed_items = completed,
                          !.failed_items = failed,
                          !.progress = [num |-> (completed + failed) * 100,
                                        den |-> Max(tr.total_items, 1)]]
    IN  IF completed + failed >= tr1.total_items
        THEN [tr1 EXCEPT !.completed_at = now,
                         !.status = IF failed = 0 THEN COMPLETED
                                    ELSE IF completed > 0 THEN PARTIAL
                                    ELSE FAILED]
        ELSE tr1

add_result(tr, result) == [tr EXCEPT !.results = Append(@, result)]

add_error(tr, error) == [tr EXCEPT !.errors = Append(@, error)]

\* --------------------------------------------------- CircuitBreaker
\* failures and last_failure_time are the two defaultdicts (functions whose
\* domain is the set of keys present), blocked_domains the set.
CircuitBreaker ==
    [failures |-> <<>>, last_failure_time |-> <<>>, blocked_domains |-> {}]

Get(f, k, default) == IF k \in DOMAIN f THEN f[k] ELSE default

Put(f, k, v) == [x \in DOMAIN f \cup {k} |-> IF x = k THEN v ELSE f[x]]

\* record_failure with the threshold test made strict (mutant).
record_failure_strict(cb, domain) ==
    LET count == Get(cb.failures, domain, 0) + 1
    IN  [failures |-> Put(cb.failures, domain, count),
         last_failure_time |-> Put(cb.last_failure_time, domain, now),
         blocked_domains |-> IF count > failure_threshold
                             THEN cb.blocked_domains \cup {domain}
                             ELSE cb.blocked_domains]

record_failure(cb, domain) ==
    LET count == Get(cb.failures, domain, 0) + 1
    IN  [failures |-> Put(cb.failures, domain, count),
         last_failure_time |-> Put(cb.last_failure_time, domain, now),
         blocked_domains |-> IF count >= failure_threshold
                             THEN cb.blocked_domains \cup {domain}
                             ELSE cb.blocked_domains]

\* is_blocked with the cooldown test >= for > (mutant).
is_blocked_geq(cb, domain) ==
    /\ domain \in cb.blocked_domains
    /\ ~(now - Get(cb.last_failure_time, domain, 0) >= timeout_seconds)

\* is_blocked returns a value and may reset the domain: the value ...
is_blocked(cb, domain) ==
    /\ domain \in cb.blocked_domains
    /\ ~(now - Get(cb.last_failure_time, domain, 0) > timeout_seconds)

\* ... and the circuit breaker it leaves.
is_blocked_effect(cb, domain) ==
    IF /\ domain \in cb.blocked_domains
       /\ now - Get(cb.last_failure_time, domain, 0) > timeout_seconds
    THEN [cb EXCEPT !.blocked_domains = @ \ {domain},
                    !.failures = Put(@, domain, 0)]
    ELSE cb

\* record_success that leaves the domain blocked when the count reaches 0
\* (mutant).
record_success_stays_blocked(cb, domain) ==
    IF domain \in DOMAIN cb.failures
    THEN LET count == Max(0, cb.failures[domain] - 1)
         IN  [cb EXCEPT !.failures = Put(@, domain, count)]
    ELSE cb

\* record_success that unblocks whatever the count is (mutant).
record_success_unblocks(cb, domain) ==
    IF domain \in DOMAIN cb.failures
    THEN LET count == Max(0, cb.failures[domain] - 1)
         IN  [cb EXCEPT !.failures = Put(@, domain, count),
                        !.blocked_domains = @ \ {domain}]
    ELSE cb

record_success(cb, domain) ==
    IF domain \in DOMAIN cb.failures
    THEN LET count == Max(0, cb.failures[domain] - 1)
         IN  [cb EXCEPT !.failures = Put(@, domain, count),
                        !.blocked_domains =
                            IF count = 0 THEN @ \ {domain} ELSE @]
    ELSE cb

\* ------------------------------------------------ requests, coroutines
\* A ScrapeRequest with the timeout_minutes it is submitted with: the site
\* (the domain of request.url and of the links found on it), max_depth,
\* and whether a question is given.
Requests ==
    [domain : Domains, max_depth : 1..2,
     timeout_minutes : 1..MaxTimeoutMinutes, question : BOOLEAN]

NoRequest == [domain |-> 1, max_depth |-> 1, timeout_minutes |-> 1, question |-> FALSE]

\* The frame of one _execute_multi_depth_scrape coroutine: where it is
\* suspended (pc), whether Task.cancel() was called on it, its arguments and
\* its local variables.  due is the due time of the wait_for it is in.
\*   pc: "none"        not submitted
\*       "created"     create_task() done, the coroutine has not run yet
\*       "sem_wait"    suspended in `async with self.task_semaphore`
\*       "discovering" suspended in the wait_for of phase 1
\*       "batch_wait"  suspended in the wait_for of a batch
\*       "done"        returned;  "cancelled"  ended by CancelledError
NoRoutine ==
    [pc |-> "none", must_cancel |-> FALSE, request |-> NoRequest,
     start_time |-> 0, found_links |-> 0, i |-> 0,
     completed_count |-> 0, failed_count |-> 0, due |-> 0]

\* One _scrape_article_with_timeout task.
\*   st: "new"       created, has not run yet
\*       "sem_wait"  suspended in `async with self.article_semaphore`
\*       "fetching"  suspended in the wait_for of attempt `attempt`
\*       "sleeping"  suspended in the asyncio.sleep before attempt + 1
\*       "done"      ended; result is "item" (article_data), "None", or
\*                   "cancelled" (ended by CancelledError)
NewWorker(link, seconds) ==
    [link |-> link, st |-> "new", attempt |-> 0, timeout_seconds |-> seconds,
     due |-> 0, result |-> "none"]

DoneWorker(w, result) ==
    [link |-> w.link, st |-> "done", attempt |-> 0, timeout_seconds |-> 0,
     due |-> 0, result |-> result]

main_page_data == [url |-> 0, depth |-> 0]

article_data(w) == [url |-> w.link, depth |-> 1]

\* The error strings.
TimedOutError == "Task timed out, returning partial results"
ExecutionError == "Task execution failed"
ArticleError == "Article scraping failed"
AnalysisError == "AI behavior analysis failed"

batch_size == Min(max_concurrent_articles, MaxBatchSize)

\* self.error_stats = defaultdict(int): a key that was never counted reads 0.
ErrorStats ==
    [circuit_breaker_blocked |-> 0, timeout_errors |-> 0, cancelled_tasks |-> 0,
     connection_errors |-> 0, general_errors |-> 0]

\* self.error_stats[key] += n
Count(key, n) == error_stats' = [error_stats EXCEPT ![key] = @ + n]

\* A query that returns None, and the state before the first query.
Nothing == <<>>

\* TaskOrchestrator.__init__(max_concurrent_tasks, max_concurrent_articles)
Orchestrator(tasks_limit, articles_limit) ==
    /\ max_concurrent_tasks = tasks_limit
    /\ max_concurrent_articles = articles_limit
    /\ now = 0
    /\ tasks = <<>>
    /\ active_tasks = {}
    /\ routine = [t \in TaskIds |-> NoRoutine]
    /\ batch_tasks = [t \in TaskIds |-> <<>>]
    /\ task_semaphore = tasks_limit
    /\ article_semaphore = articles_limit
    /\ circuit_breaker = CircuitBreaker
    /\ error_stats = ErrorStats
    /\ response = Nothing

\* submit_multi_depth_scrape that does not enter the task in active_tasks
\* (mutant).
Submit_untracked(request) ==
    LET task_id == Cardinality(DOMAIN tasks) + 1
    IN  /\ task_id \in TaskIds
        /\ tasks' = Put(tasks, task_id, TaskResult)
        /\ routine' = [routine EXCEPT ![task_id] =
                          [NoRoutine EXCEPT !.pc = "created", !.request = request]]
        /\ UNCHANGED <<config, error_stats, response, now, active_tasks, batch_tasks,
                       task_semaphore, article_semaphore, circuit_breaker>>

\* ------------------------------------------- submit_multi_depth_scrape
\* uuid4() is a fresh id: the next unused one.
Submit(request) ==
    LET task_id == Cardinality(DOMAIN tasks) + 1
    IN  /\ task_id \in TaskIds
        /\ tasks' = Put(tasks, task_id, TaskResult)
        /\ active_tasks' = active_tasks \cup {task_id}
        /\ routine' = [routine EXCEPT ![task_id] =
                          [NoRoutine EXCEPT !.pc = "created", !.request = request]]
        /\ UNCHANGED <<config, error_stats, response, now, batch_tasks, task_semaphore, article_semaphore,
                       circuit_breaker>>

\* finalize with the errors test off by one, >= 0 for > 0 (mutant).
finalize_errors_geq(tr, start_time, timeout_minutes) ==
    LET tr1 == [tr EXCEPT !.completed_at = now]
        elapsed_time == now - start_time
        timeout_delta == timeout_minutes * SecondsPerMinute
    IN  IF Len(tr1.results) = 0
        THEN [tr1 EXCEPT !.status = FAILED]
        ELSE IF elapsed_time >= timeout_delta
        THEN add_error([tr1 EXCEPT !.status = PARTIAL], TimedOutError)
        ELSE IF Len(tr1.errors) >= 0
        THEN [tr1 EXCEPT !.status = PARTIAL]
        ELSE [tr1 EXCEPT !.status = COMPLETED]

\* finalize with the deadline test made strict (mutant).
finalize_strict_deadline(tr, start_time, timeout_minutes) ==
    LET tr1 == [tr EXCEPT !.completed_at = now]
        elapsed_time == now - start_time
        timeout_delta == timeout_minutes * SecondsPerMinute
    IN  IF Len(tr1.results) = 0
        THEN [tr1 EXCEPT !.status = FAILED]
        ELSE IF elapsed_time > timeout_delta
        THEN add_error([tr1 EXCEPT !.status = PARTIAL], TimedOutError)
        ELSE IF Len(tr1.errors) > 0
        THEN [tr1 EXCEPT !.status = PARTIAL]
        ELSE [tr1 EXCEPT !.status = COMPLETED]

\* finalize without the completed_at stamp (mutant).
finalize_unstamped(tr, start_time, timeout_minutes) ==
    LET elapsed_time == now - start_time
        timeout_delta == timeout_minutes * SecondsPerMinute
    IN  IF Len(tr.results) = 0
        THEN [tr EXCEPT !.status = FAILED]
        ELSE IF elapsed_time >= timeout_delta
        THEN add_error([tr EXCEPT !.status = PARTIAL], TimedOutError)
        ELSE IF Len(tr.errors) > 0
        THEN [tr EXCEPT !.status = PARTIAL]
        ELSE [tr EXCEPT !.status = COMPLETED]

\* --------------------------------------------- _execute_multi_depth_scrape
\* Lines 369-382: the final status.
finalize(tr, start_time, timeout_minutes) ==
    LET tr1 == [tr EXCEPT !.completed_at = now]
        elapsed_time == now - start_time
        timeout_delta == timeout_minutes * SecondsPerMinute
    IN  IF Len(tr1.results) = 0
        THEN [tr1 EXCEPT !.status = FAILED]
        ELSE IF elapsed_time >= timeout_delta
        THEN add_error([tr1 EXCEPT !.status = PARTIAL], TimedOutError)
        ELSE IF Len(tr1.errors) > 0
        THEN [tr1 EXCEPT !.status = PARTIAL]
        ELSE [tr1 EXCEPT !.status = COMPLETED]

\* Phase 3 that fails the task when the analysis raises (mutant).
phase3_fails_task(tr, request, analysis_raises) ==
    IF request.question /\ Len(tr.results) > 0
    THEN IF analysis_raises
         THEN add_error([tr EXCEPT !.status = FAILED], AnalysisError)
         ELSE [tr EXCEPT !.metadata.ai_reports = TRUE]
    ELSE tr

\* Lines 384-407: phase 3.  The analysis itself catches what it raises and
\* returns []; building the ScrapingService (outside its try) may raise.
\* The analysis has no await that suspends: phase 3 runs in the step of
\* finalize.
phase3(tr, request, analysis_raises) ==
    IF request.question /\ Len(tr.results) > 0
    THEN IF analysis_raises
         THEN add_error(tr, AnalysisError)
         ELSE [tr EXCEPT !.metadata.ai_reports = TRUE]
    ELSE tr

\* The outermost handler without the status write (mutant).
on_exception_keeps_status(tr) ==
    [add_error(tr, ExecutionError) EXCEPT !.completed_at = now]

\* The outermost handler without the error entry (mutant).
on_exception_silent(tr) ==
    [tr EXCEPT !.status = FAILED, !.completed_at = now]

\* Lines 413-417: the outermost handler.
on_exception(tr) ==
    [add_error([tr EXCEPT !.status = FAILED], ExecutionError)
        EXCEPT !.completed_at = now]

\* The end of the coroutine without the finally clause (mutant).
Exit_keeps_active(t, tr, pc) ==
    /\ tasks' = [tasks EXCEPT ![t] = tr]
    /\ active_tasks' = active_tasks
    /\ task_semaphore' = task_semaphore + 1
    /\ routine' = [routine EXCEPT ![t] = [NoRoutine EXCEPT !.pc = pc]]
    /\ batch_tasks' = [batch_tasks EXCEPT ![t] = <<>>]

\* The end of the coroutine without the release of the semaphore (mutant).
Exit_keeps_permit(t, tr, pc) ==
    /\ tasks' = [tasks EXCEPT ![t] = tr]
    /\ active_tasks' = active_tasks \ {t}
    /\ task_semaphore' = task_semaphore
    /\ routine' = [routine EXCEPT ![t] = [NoRoutine EXCEPT !.pc = pc]]
    /\ batch_tasks' = [batch_tasks EXCEPT ![t] = <<>>]

\* Lines 419-422 and the end of `async with self.task_semaphore`: the
\* coroutine ends, leaving tr as the task's record.
Exit(t, tr, pc) ==
    /\ tasks' = [tasks EXCEPT ![t] = tr]
    /\ active_tasks' = active_tasks \ {t}
    /\ task_semaphore' = task_semaphore + 1
    /\ routine' = [routine EXCEPT ![t] = [NoRoutine EXCEPT !.pc = pc]]
    /\ batch_tasks' = [batch_tasks EXCEPT ![t] = <<>>]

\* Lines 369-422 on the normal path.
FinalizeAndExit(t, r, tr, analysis_raises) ==
    Exit(t, phase3(finalize(tr, r.start_time, r.request.timeout_minutes),
                   r.request, analysis_raises), "done")

\* The loop with one batch of all the links that are left (mutant).
Loop_unbatched(t, r, tr, i, completed_count, failed_count, analysis_raises) ==
    LET elapsed_time == now - r.start_time
        timeout_delta == r.request.timeout_minutes * SecondsPerMinute
        remaining_time == timeout_delta - elapsed_time
        batch_links == [k \in 1..(r.found_links - i + 1) |-> i + k - 1]
        seconds == Min(MaxArticleTimeout, remaining_time \div Len(batch_links))
        remaining_seconds == Max(MinBatchWait, remaining_time)
    IN  IF /\ i <= r.found_links
           /\ ~(elapsed_time >= timeout_delta)
           /\ ~(remaining_time < MinRemainingSeconds)
        THEN /\ tasks' = [tasks EXCEPT ![t] = tr]
             /\ routine' = [routine EXCEPT ![t] =
                    [r EXCEPT !.pc = "batch_wait", !.i = i,
                              !.completed_count = completed_count,
                              !.failed_count = failed_count,
                              !.due = now + remaining_seconds]]
             /\ batch_tasks' = [batch_tasks EXCEPT ![t] =
                    [k \in DOMAIN batch_links |-> NewWorker(batch_links[k], seconds)]]
             /\ UNCHANGED <<active_tasks, task_semaphore>>
        ELSE FinalizeAndExit(t, r, tr, analysis_raises)

\* The loop without its two tests of the time that is left (mutant).
Loop_no_deadline(t, r, tr, i, completed_count, failed_count, analysis_raises) ==
    LET elapsed_time == now - r.start_time
        timeout_delta == r.request.timeout_minutes * SecondsPerMinute
        remaining_time == timeout_delta - elapsed_time
        batch_links == [k \in 1..Min(batch_size, r.found_links - i + 1) |-> i + k - 1]
        seconds == Min(MaxArticleTimeout, remaining_time \div Len(batch_links))
        remaining_seconds == Max(MinBatchWait, remaining_time)
    IN  IF i <= r.found_links
        THEN /\ tasks' = [tasks EXCEPT ![t] = tr]
             /\ routine' = [routine EXCEPT ![t] =
                    [r EXCEPT !.pc = "batch_wait", !.i = i,
                              !.completed_count = completed_count,
                              !.failed_count = failed_count,
                              !.due = now + remaining_seconds]]
             /\ batch_tasks' = [batch_tasks EXCEPT ![t] =
                    [k \in DOMAIN batch_links |-> NewWorker(batch_links[k], seconds)]]
             /\ UNCHANGED <<active_tasks, task_semaphore>>
        ELSE FinalizeAndExit(t, r, tr, analysis_raises)

\* Lines 302-337: the batch loop from index i (links are numbered
\* 1..found_links) up to its next suspension.  elapsed_time is read once per
\* iteration and no time passes between iterations, so an iteration that
\* dispatches nothing (less than 60 s left) is followed only by iterations
\* that dispatch nothing: the loop then ends and the coroutine finalizes.
Loop(t, r, tr, i, completed_count, failed_count, analysis_raises) ==
    LET elapsed_time == now - r.start_time
        timeout_delta == r.request.timeout_minutes * SecondsPerMinute
        remaining_time == timeout_delta - elapsed_time
        batch_links == [k \in 1..Min(batch_size, r.found_links - i + 1) |-> i + k - 1]
        seconds == Min(MaxArticleTimeout, remaining_time \div Len(batch_links))
        remaining_seconds == Max(MinBatchWait, remaining_time)
    IN  IF /\ i <= r.found_links
           /\ ~(elapsed_time >= timeout_delta)
           /\ ~(remaining_time < MinRemainingSeconds)
        THEN /\ tasks' = [tasks EXCEPT ![t] = tr]
             /\ routine' = [routine EXCEPT ![t] =
                    [r EXCEPT !.pc = "batch_wait", !.i = i,
                              !.completed_count = completed_count,
                              !.failed_count = failed_count,
                              !.due = now + remaining_seconds]]
             /\ batch_tasks' = [batch_tasks EXCEPT ![t] =
                    [k \in DOMAIN batch_links |-> NewWorker(batch_links[k], seconds)]]
             /\ UNCHANGED <<active_tasks, task_semaphore>>
        ELSE FinalizeAndExit(t, r, tr, analysis_raises)

\* Entering RUNNING with the deadline clock started at the permit (mutant).
EnterRunning_starts_clock(t, r) ==
    /\ task_semaphore > 0
    /\ task_semaphore' = task_semaphore - 1
    /\ tasks' = [tasks EXCEPT ![t].status = RUNNING]
    /\ routine' = [routine EXCEPT ![t] =
            [r EXCEPT !.pc = "discovering", !.due = now + MainPageTimeout,
                      !.start_time = now]]

\* Entering RUNNING without waiting for a permit (mutant).
EnterRunning_unguarded(t, r) ==
    /\ task_semaphore' = task_semaphore - 1
    /\ tasks' = [tasks EXCEPT ![t].status = RUNNING]
    /\ routine' = [routine EXCEPT ![t] =
            [r EXCEPT !.pc = "discovering", !.due = now + MainPageTimeout]]

\* Lines 250-262: the coroutine enters the semaphore, sets RUNNING and
\* suspends in the wait_for of phase 1.
EnterRunning(t, r) ==
    /\ task_semaphore > 0
    /\ task_semaphore' = task_semaphore - 1
    /\ tasks' = [tasks EXCEPT ![t].status = RUNNING]
    /\ routine' = [routine EXCEPT ![t] =
            [r EXCEPT !.pc = "discovering", !.due = now + MainPageTimeout]]

\* Lines 246-250: the first step of the coroutine.
RoutineStart(t) ==
    LET r == [routine[t] EXCEPT !.start_time = now]
    IN  /\ routine[t].pc = "created"
        /\ ~routine[t].must_cancel
        /\ IF task_semaphore > 0
           THEN EnterRunning(t, r)
           ELSE /\ routine' = [routine EXCEPT ![t] = [r EXCEPT !.pc = "sem_wait"]]
                /\ UNCHANGED <<tasks, task_semaphore>>
        /\ UNCHANGED <<config, error_stats, response, now, active_tasks, batch_tasks, article_semaphore,
                       circuit_breaker>>

\* Line 250: a queued coroutine gets a permit.
RoutineAcquire(t) ==
    /\ routine[t].pc = "sem_wait"
    /\ ~routine[t].must_cancel
    /\ EnterRunning(t, routine[t])
    /\ UNCHANGED <<config, error_stats, response, now, active_tasks, batch_tasks, article_semaphore,
                   circuit_breaker>>

\* The total without the main page (mutant).
discovered_total_links_only(n) == n

\* Line 273: len(found_links) + 1, the main page and the articles.
discovered_total(n) == n + 1

\* Lines 259-291: the main page arrives with n links before the 5 minutes
\* are over.
DiscoveryReturn(t, n, analysis_raises) ==
    LET r == [routine[t] EXCEPT !.found_links = n]
        tr1 == [tasks[t] EXCEPT !.total_items = discovered_total(n)]
        tr2 == update_progress(add_result(tr1, main_page_data), 1, 0)
    IN  /\ routine[t].pc = "discovering"
        /\ ~routine[t].must_cancel
        /\ now < routine[t].due
        /\ IF n > 0 /\ r.request.max_depth > 1
           THEN Loop(t, r, tr2, 1, 1, 0, analysis_raises)
           ELSE FinalizeAndExit(t, r, tr2, analysis_raises)
        /\ UNCHANGED <<config, error_stats, response, now, article_semaphore, circuit_breaker>>

\* Lines 263-267, 413-422: the main page scrape reports a failure, or the
\* 5 minutes are over: RuntimeError, caught by the outermost handler.
DiscoveryFail(t) ==
    /\ routine[t].pc = "discovering"
    /\ ~routine[t].must_cancel
    /\ Exit(t, on_exception(tasks[t]), "done")
    /\ UNCHANGED <<config, error_stats, response, now, article_semaphore, circuit_breaker>>

\* ------------------------------------------- _scrape_article_with_timeout
SetWorker(t, k, w) == batch_tasks' = [batch_tasks EXCEPT ![t][k] = w]

\* Lines 506-515: attempt number `attempt` starts.
BeginAttempt(w, attempt) ==
    [w EXCEPT !.st = "fetching", !.attempt = attempt,
              !.due = now + w.timeout_seconds]

\* The first step of an article task that does not count the skip of a
\* blocked domain (mutant).
WorkerStart_uncounted(t, k) ==
    LET w == batch_tasks[t][k]
        domain == routine[t].request.domain
    IN  /\ k \in DOMAIN batch_tasks[t]
        /\ w.st = "new"
        /\ circuit_breaker' = is_blocked_effect(circuit_breaker, domain)
        /\ IF is_blocked(circuit_breaker, domain)
           THEN /\ SetWorker(t, k, DoneWorker(w, "None"))
                /\ UNCHANGED article_semaphore
           ELSE IF article_semaphore > 0
           THEN /\ SetWorker(t, k, BeginAttempt(w, 0))
                /\ article_semaphore' = article_semaphore - 1
           ELSE /\ SetWorker(t, k, [w EXCEPT !.st = "sem_wait"])
                /\ UNCHANGED article_semaphore
        /\ UNCHANGED <<config, error_stats, response, now, tasks, active_tasks, routine,
                       task_semaphore>>

\* Lines 497-515: the first step of an article task.
WorkerStart(t, k) ==
    LET w == batch_tasks[t][k]
        domain == routine[t].request.domain
    IN  /\ k \in DOMAIN batch_tasks[t]
        /\ w.st = "new"
        /\ circuit_breaker' = is_blocked_effect(circuit_breaker, domain)
        /\ IF is_blocked(circuit_breaker, domain)
           THEN /\ SetWorker(t, k, DoneWorker(w, "None"))
                /\ Count("circuit_breaker_blocked", 1)
                /\ UNCHANGED article_semaphore
           ELSE IF article_semaphore > 0
           THEN /\ SetWorker(t, k, BeginAttempt(w, 0))
                /\ article_semaphore' = article_semaphore - 1
                /\ UNCHANGED error_stats
           ELSE /\ SetWorker(t, k, [w EXCEPT !.st = "sem_wait"])
                /\ UNCHANGED <<article_semaphore, error_stats>>
        /\ UNCHANGED <<config, response, now, tasks, active_tasks, routine, task_semaphore>>

\* Line 503: a queued article task gets a permit.  A batch has at most
\* max_concurrent_articles article tasks, so with one task running at a time
\* a permit is always free: only SpecShared, where two tasks run at the same
\* time, takes this step.
WorkerAcquire(t, k) ==
    LET w == batch_tasks[t][k]
    IN  /\ k \in DOMAIN batch_tasks[t]
        /\ w.st = "sem_wait"
        /\ article_semaphore > 0
        /\ article_semaphore' = article_semaphore - 1
        /\ SetWorker(t, k, BeginAttempt(w, 0))
        /\ UNCHANGED <<config, error_stats, response, now, tasks, active_tasks, routine, task_semaphore,
                       circuit_breaker>>

\* Lines 517-536: the fetch returns success within the attempt's timeout.
FetchSuccess(t, k) ==
    LET w == batch_tasks[t][k]
    IN  /\ k \in DOMAIN batch_tasks[t]
        /\ w.st = "fetching"
        /\ now < w.due
        /\ circuit_breaker' = record_success(circuit_breaker, routine[t].request.domain)
        /\ SetWorker(t, k, DoneWorker(w, "item"))
        /\ article_semaphore' = article_semaphore + 1
        /\ UNCHANGED <<config, error_stats, response, now, tasks, active_tasks, routine, task_semaphore>>

\* The end of a failed attempt that calls record_failure whether or not it
\* was the last (mutant).
AttemptFailed_each(t, k, seconds) ==
    LET w == [batch_tasks[t][k] EXCEPT !.timeout_seconds = seconds]
    IN  /\ circuit_breaker' = record_failure(circuit_breaker, routine[t].request.domain)
        /\ IF w.attempt < retry_count
           THEN /\ SetWorker(t, k, [w EXCEPT !.st = "sleeping", !.due = 0])
                /\ UNCHANGED article_semaphore
           ELSE /\ SetWorker(t, k, DoneWorker(w, "None"))
                /\ article_semaphore' = article_semaphore + 1

\* The end of an attempt that failed, `seconds` being the timeout of the
\* next one: a sleep and another attempt, or record_failure and None (lines
\* 546-552, 565-571, 579-591).  last_error is only logged; it is not part
\* of this model.
AttemptFailed(t, k, seconds) ==
    LET w == [batch_tasks[t][k] EXCEPT !.timeout_seconds = seconds]
    IN  IF w.attempt < retry_count
        THEN /\ SetWorker(t, k, [w EXCEPT !.st = "sleeping", !.due = 0])
             /\ UNCHANGED <<article_semaphore, circuit_breaker>>
        ELSE /\ circuit_breaker' = record_failure(circuit_breaker, routine[t].request.domain)
             /\ SetWorker(t, k, DoneWorker(w, "None"))
             /\ article_semaphore' = article_semaphore + 1

\* Lines 537-539, 560-585: the fetch raises ConnectionError ("connection"),
\* or raises another exception or reports success = False ("other").
FetchError(t, k, kind) ==
    LET w == batch_tasks[t][k]
    IN  /\ k \in DOMAIN batch_tasks[t]
        /\ w.st = "fetching"
        /\ now < w.due
        /\ AttemptFailed(t, k, w.timeout_seconds)
        /\ Count(IF kind = "connection" THEN "connection_errors" ELSE "general_errors", 1)
        /\ UNCHANGED <<config, response, now, tasks, active_tasks, routine, task_semaphore>>

\* Lines 541-552: the attempt's wait_for times out.
FetchTimeout(t, k) ==
    LET w == batch_tasks[t][k]
    IN  /\ k \in DOMAIN batch_tasks[t]
        /\ w.st = "fetching"
        /\ now >= w.due
        /\ AttemptFailed(t, k,
                         IF w.attempt < retry_count
                         THEN Max(MinRetryTimeout, w.timeout_seconds \div 2)
                         ELSE w.timeout_seconds)
        /\ Count("timeout_errors", 1)
        /\ UNCHANGED <<config, response, now, tasks, active_tasks, routine, task_semaphore>>

\* Lines 549, 568, 582 and 506-515: the sleep ends, the next attempt starts.
WorkerWake(t, k) ==
    LET w == batch_tasks[t][k]
    IN  /\ k \in DOMAIN batch_tasks[t]
        /\ w.st = "sleeping"
        /\ SetWorker(t, k, BeginAttempt(w, w.attempt + 1))
        /\ UNCHANGED <<config, error_stats, response, now, tasks, active_tasks, routine, task_semaphore,
                       article_semaphore, circuit_breaker>>

\* Task.cancel() on an article task: in a fetch the CancelledError is caught
\* and None returned (lines 554-558); in a sleep, queued at the semaphore or
\* not yet started, the task ends cancelled.
CancelWorker(w) ==
    IF w.st = "done" THEN w
    ELSE IF w.st = "fetching" THEN DoneWorker(w, "None")
    ELSE DoneWorker(w, "cancelled")

\* The article tasks of a batch that a cancellation reaches in a fetch: each
\* counts itself in error_stats (line 557).
Fetching(batch) == Cardinality({k \in DOMAIN batch : batch[k].st = "fetching"})

\* The permits of self.article_semaphore the article tasks of a batch hold.
PermitsHeld(batch) ==
    Cardinality({k \in DOMAIN batch : batch[k].st \in {"fetching", "sleeping"}})

\* The results of a batch with the articles appended and not counted
\* (mutant).
RECURSIVE process_results_uncounted(_, _, _, _)
process_results_uncounted(tr, results, completed_count, failed_count) ==
    IF results = <<>>
    THEN [tr |-> tr, completed_count |-> completed_count,
          failed_count |-> failed_count]
    ELSE LET w == Head(results)
             step ==
                 IF w.result = "exception"
                 THEN [tr |-> add_error(tr, ArticleError),
                       c |-> completed_count, f |-> failed_count + 1]
                 ELSE IF w.result = "item"
                 THEN [tr |-> add_result(tr, article_data(w)),
                       c |-> completed_count, f |-> failed_count]
                 ELSE [tr |-> tr, c |-> completed_count, f |-> failed_count + 1]
         IN  process_results_uncounted(update_progress(step.tr, step.c, step.f),
                                       Tail(results), step.c, step.f)

\* ---------------------------------------------------- the batch, awaited
\* Lines 340-355: the results of a batch, in order.
RECURSIVE process_results(_, _, _, _)
process_results(tr, results, completed_count, failed_count) ==
    IF results = <<>>
    THEN [tr |-> tr, completed_count |-> completed_count,
          failed_count |-> failed_count]
    ELSE LET w == Head(results)
             step ==
                 IF w.result = "exception"
                 THEN [tr |-> add_error(tr, ArticleError),
                       c |-> completed_count, f |-> failed_count + 1]
                 ELSE IF w.result = "item"
                 THEN [tr |-> add_result(tr, article_data(w)),
                       c |-> completed_count + 1, f |-> failed_count]
                 ELSE [tr |-> tr, c |-> completed_count, f |-> failed_count + 1]
         IN  process_results(update_progress(step.tr, step.c, step.f),
                             Tail(results), step.c, step.f)

\* gather() that returns with the first article task that ends (mutant).
AllDone_first(batch) == \E k \in DOMAIN batch : batch[k].st = "done"

AllDone(batch) == \A k \in DOMAIN batch : batch[k].st = "done"

\* Lines 334-355 and the loop on: gather() has every result.
BatchDone(t, analysis_raises) ==
    LET r == routine[t]
        p == process_results(tasks[t], batch_tasks[t], r.completed_count,
                             r.failed_count)
    IN  /\ r.pc = "batch_wait"
        /\ ~r.must_cancel
        /\ AllDone(batch_tasks[t])
        /\ Loop(t, r, p.tr, r.i + batch_size, p.completed_count,
                p.failed_count, analysis_raises)
        /\ UNCHANGED <<config, error_stats, response, now, article_semaphore, circuit_breaker>>

\* The timeout of the batch wait with article tasks that keep their permits
\* of the article semaphore when they are cancelled (mutant).
BatchTimeout_keeps_permits(t, analysis_raises) ==
    LET r == routine[t]
        batch == [k \in DOMAIN batch_tasks[t] |-> CancelWorker(batch_tasks[t][k])]
        not_done == {k \in DOMAIN batch : batch[k].st # "done"}
        failed_count == r.failed_count + Cardinality(not_done)
    IN  /\ r.pc = "batch_wait"
        /\ ~r.must_cancel
        /\ now >= r.due
        /\ ~AllDone(batch_tasks[t])
        /\ UNCHANGED article_semaphore
        /\ FinalizeAndExit(t, r,
                           update_progress(tasks[t], r.completed_count, failed_count),
                           analysis_raises)
        /\ Count("cancelled_tasks", Fetching(batch_tasks[t]))
        /\ UNCHANGED <<config, response, now, circuit_breaker>>

\* Lines 357-367: the wait_for of the batch times out.  wait_for cancels
\* gather(), which cancels the article tasks, and raises TimeoutError only
\* once they have ended: the handler runs on the batch as cancelled.
BatchTimeout(t, analysis_raises) ==
    LET r == routine[t]
        batch == [k \in DOMAIN batch_tasks[t] |-> CancelWorker(batch_tasks[t][k])]
        not_done == {k \in DOMAIN batch : batch[k].st # "done"}
        failed_count == r.failed_count + Cardinality(not_done)
    IN  /\ r.pc = "batch_wait"
        /\ ~r.must_cancel
        /\ now >= r.due
        /\ ~AllDone(batch_tasks[t])
        /\ article_semaphore' = article_semaphore + PermitsHeld(batch_tasks[t])
        /\ FinalizeAndExit(t, r,
                           update_progress(tasks[t], r.completed_count, failed_count),
                           analysis_raises)
        /\ Count("cancelled_tasks", Fetching(batch_tasks[t]))
        /\ UNCHANGED <<config, response, now, circuit_breaker>>

\* cancel_task without active_task.cancel() (mutant).
CancelTask_status_only(task_id) ==
    IF task_id \notin DOMAIN tasks
    THEN UNCHANGED vars
    ELSE /\ tasks' = [tasks EXCEPT ![task_id].status = CANCELLED,
                                   ![task_id].completed_at = now]
         /\ active_tasks' = active_tasks \ {task_id}
         /\ UNCHANGED <<config, error_stats, response, now, routine, batch_tasks, task_semaphore,
                        article_semaphore, circuit_breaker>>

\* ------------------------------------------------------------ cancel_task
CancelTask(task_id) ==
    IF task_id \notin DOMAIN tasks
    THEN UNCHANGED vars
    ELSE /\ tasks' = [tasks EXCEPT ![task_id].status = CANCELLED,
                                   ![task_id].completed_at = now]
         /\ active_tasks' = active_tasks \ {task_id}
         /\ routine' = IF task_id \in active_tasks
                       THEN [routine EXCEPT ![task_id].must_cancel = TRUE]
                       ELSE routine
         /\ UNCHANGED <<config, error_stats, response, now, batch_tasks, task_semaphore, article_semaphore,
                        circuit_breaker>>

\* Lines 659-660, 674: what cancel_task returns.
cancel_task_returns(task_id) == task_id \in DOMAIN tasks

\* The cancelled coroutine is resumed with CancelledError: nothing catches
\* it; a pending wait_for cancels what it awaits; past line 250 the finally
\* clause runs and the semaphore is released.
RoutineCancelled(t) ==
    LET r == routine[t]
    IN  /\ r.must_cancel
        /\ r.pc \in {"created", "sem_wait", "discovering", "batch_wait"}
        /\ routine' = [routine EXCEPT ![t] = [NoRoutine EXCEPT !.pc = "cancelled"]]
        /\ batch_tasks' = [batch_tasks EXCEPT ![t] = <<>>]
        /\ article_semaphore' = article_semaphore + PermitsHeld(batch_tasks[t])
        /\ task_semaphore' = IF r.pc \in {"discovering", "batch_wait"}
                             THEN task_semaphore + 1 ELSE task_semaphore
        /\ active_tasks' = active_tasks \ {t}
        /\ Count("cancelled_tasks", Fetching(batch_tasks[t]))
        /\ UNCHANGED <<config, response, now, tasks, circuit_breaker>>

\* ---------------------------------------------------------------- queries
\* round(self.progress, 2), in hundredths of a percent.  Halves are rounded
\* up; with fewer than 32 items no progress value lies on a half.
round2(progress) == (progress.num * 100 * 2 + progress.den) \div (2 * progress.den)

\* Lines 98-116.  created_at and updated_at are not kept: tasks are created
\* in the order of their ids.
to_dict(task_id) ==
    LET tr == tasks[task_id]
    IN  [task_id |-> task_id,
         status |-> tr.status,
         progress |-> round2(tr.progress),
         total_items |-> tr.total_items,
         completed_items |-> tr.completed_items,
         failed_items |-> tr.failed_items,
         results_count |-> Len(tr.results),
         errors_count |-> Len(tr.errors),
         metadata |-> tr.metadata,
         completed_at |-> tr.completed_at]

\* Lines 593-607.
get_task_status(task_id) ==
    IF task_id \notin DOMAIN tasks THEN Nothing ELSE to_dict(task_id)

\* Lines 609-647.  success_rate is the float completed / max(total, 1) * 100,
\* kept as the exact fraction.
get_task_results(task_id, include_errors) ==
    IF task_id \notin DOMAIN tasks THEN Nothing
    ELSE LET tr == tasks[task_id]
             summary == [task_id |-> task_id,
                         total_items |-> tr.total_items,
                         completed_items |-> tr.completed_items,
                         failed_items |-> tr.failed_items,
                         success_rate |-> [num |-> tr.completed_items * 100,
                                           den |-> Max(tr.total_items, 1)]]
         IN  IF include_errors
             THEN [task_id |-> task_id, status |-> tr.status,
                   results |-> tr.results, metadata |-> tr.metadata,
                   summary |-> summary, errors |-> tr.errors]
             ELSE [task_id |-> task_id, status |-> tr.status,
                   results |-> tr.results, metadata |-> tr.metadata,
                   summary |-> summary]

\* status_filter = None
NoFilter == "None"

\* tasks[:limit]: the first limit entries, and for a negative limit all but
\* the last -limit.
Slice(seq, limit) ==
    SubSeq(seq, 1, IF limit < 0 THEN Max(Len(seq) + limit, 0)
                   ELSE Min(limit, Len(seq)))

\* Lines 756-777: the tasks of the status asked for, newest first.
get_all_tasks(status_filter, limit) ==
    LET Matches(task_id) ==
            status_filter = NoFilter \/ tasks[task_id].status = status_filter
        ids == SelectSeq([i \in 1..Len(tasks) |-> i], Matches)
        newest_first == [i \in 1..Len(ids) |-> to_dict(ids[Len(ids) + 1 - i])]
    IN  Slice(newest_first, limit)

\* A query returns: nothing but its return value changes.
Return(method, params, value) ==
    /\ response' = [method |-> method, params |-> params, returns |-> value]
    /\ UNCHANGED <<config, now, tasks, active_tasks, routine, batch_tasks,
                   task_semaphore, article_semaphore, circuit_breaker, error_stats>>

GetTaskStatus(task_id) ==
    Return("get_task_status", <<task_id>>, get_task_status(task_id))

GetTaskResults(task_id, include_errors) ==
    Return("get_task_results", <<task_id, include_errors>>,
           get_task_results(task_id, include_errors))

GetAllTasks(status_filter, limit) ==
    Return("get_all_tasks", <<status_filter, limit>>,
           get_all_tasks(status_filter, limit))

\* sum(self.error_stats.values())
SumErrors(stats) ==
    stats.circuit_breaker_blocked + stats.timeout_errors + stats.cancelled_tasks
    + stats.connection_errors + stats.general_errors

\* round(error_rate, 3), in thousandths.
round3(rate) == (rate.num * 1000 * 2 + rate.den) \div (2 * rate.den)

\* Lines 789-792: how many tasks have each status that some task has.
status_distribution ==
    [s \in {tasks[i].status : i \in 1..Len(tasks)} |->
        Cardinality({i \in 1..Len(tasks) : tasks[i].status = s})]

\* health_check that reports at_capacity only for a count equal to the
\* maximum (mutant).
health_check_equal ==
    LET active_count == Cardinality(active_tasks)
        total_tasks == Len(tasks)
        error_rate == [num |-> SumErrors(error_stats), den |-> Max(total_tasks, 1)]
        health_status ==
            IF 2 * error_rate.num > error_rate.den THEN "degraded"
            ELSE IF Cardinality(circuit_breaker.blocked_domains) > MaxBlockedDomains
            THEN "degraded"
            ELSE IF active_count = max_concurrent_tasks THEN "at_capacity"
            ELSE "healthy"
    IN  [status |-> health_status,
         active_tasks |-> active_count,
         total_tasks |-> total_tasks,
         max_concurrent_tasks |-> max_concurrent_tasks,
         max_concurrent_articles |-> max_concurrent_articles,
         available_task_slots |-> max_concurrent_tasks - active_count,
         task_status_distribution |-> status_distribution,
         error_statistics |-> error_stats,
         error_rate |-> round3(error_rate),
         circuit_breaker |->
             [blocked_domains |-> circuit_breaker.blocked_domains,
              domain_failure_counts |-> circuit_breaker.failures,
              total_blocked_domains |-> Cardinality(circuit_breaker.blocked_domains)]]

\* Lines 779-824.  error_rate is the float sum / max(total_tasks, 1), kept
\* as the exact fraction: it is > 0.5 when twice the sum exceeds the
\* denominator.
health_check ==
    LET active_count == Cardinality(active_tasks)
        total_tasks == Len(tasks)
        error_rate == [num |-> SumErrors(error_stats), den |-> Max(total_tasks, 1)]
        health_status ==
            IF 2 * error_rate.num > error_rate.den THEN "degraded"
            ELSE IF Cardinality(circuit_breaker.blocked_domains) > MaxBlockedDomains
            THEN "degraded"
            ELSE IF active_count >= max_concurrent_tasks THEN "at_capacity"
            ELSE "healthy"
    IN  [status |-> health_status,
         active_tasks |-> active_count,
         total_tasks |-> total_tasks,
         max_concurrent_tasks |-> max_concurrent_tasks,
         max_concurrent_articles |-> max_concurrent_articles,
         available_task_slots |-> max_concurrent_tasks - active_count,
         task_status_distribution |-> status_distribution,
         error_statistics |-> error_stats,
         error_rate |-> round3(error_rate),
         circuit_breaker |->
             [blocked_domains |-> circuit_breaker.blocked_domains,
              domain_failure_counts |-> circuit_breaker.failures,
              total_blocked_domains |-> Cardinality(circuit_breaker.blocked_domains)]]

HealthCheck == Return("health_check", <<>>, health_check)

\* ------------------------------------------------------------------ time
\* A timeout that is due and has not fired.
TimeoutDue ==
    \E t \in TaskIds :
        \/ /\ ~routine[t].must_cancel
           /\ routine[t].pc = "discovering"
           /\ now >= routine[t].due
        \/ /\ ~routine[t].must_cancel
           /\ routine[t].pc = "batch_wait"
           /\ now >= routine[t].due
           /\ ~AllDone(batch_tasks[t])
        \/ \E k \in DOMAIN batch_tasks[t] :
               /\ batch_tasks[t][k].st = "fetching"
               /\ now >= batch_tasks[t][k].due

\* A coroutine that the event loop can resume at once: created and not yet
\* run, cancelled and not yet resumed, or awaiting a batch that has ended.
Runnable ==
    \E t \in TaskIds :
        \/ routine[t].pc = "created"
        \/ routine[t].must_cancel /\ routine[t].pc \notin {"done", "cancelled"}
        \/ routine[t].pc = "batch_wait" /\ AllDone(batch_tasks[t])
        \/ \E k \in DOMAIN batch_tasks[t] : batch_tasks[t][k].st = "new"

\* The clock starts with the first submission.  Time passes only when no
\* timeout is due and the event loop has nothing to resume.
Advance(seconds) ==
    /\ now + seconds <= MaxMinutes * SecondsPerMinute
    /\ tasks # <<>>
    /\ ~TimeoutDue
    /\ ~Runnable
    /\ now' = now + seconds
    /\ UNCHANGED <<config, error_stats, response, tasks, active_tasks, routine, batch_tasks, task_semaphore,
                   article_semaphore, circuit_breaker>>

\* A minute passes.
Tick == Advance(SecondsPerMinute)

\* Half a minute passes: the clock of the specifications that follow a task
\* whose discovery or fetches end within a minute.
HalfTick == Advance(SecondsPerMinute \div 2)

Workers == 1..MaxLinks

\* ------------------------------------------------------- specifications
\* Spec: one orchestrator, built with max_concurrent_articles = 2, and the
\* whole life of one task on it, for every request, every discovery and every
\* interleaving of its article tasks, of the clock and of cancel_task.  With
\* one task no coroutine waits at either semaphore.  A fetch returns an
\* article, raises ConnectionError or is cut off by its timeout; the other
\* exceptions, which differ from ConnectionError in the key of error_stats
\* they count, are followed in SpecWorker.
Init == Orchestrator(1, 2)

Next ==
    \/ \E request \in Requests : tasks = <<>> /\ Submit(request)
    \/ \E t \in TaskIds : RoutineStart(t)
    \/ \E t \in TaskIds, n \in 0..MaxLinks, b \in BOOLEAN : DiscoveryReturn(t, n, b)
    \/ \E t \in TaskIds : DiscoveryFail(t)
    \/ \E t \in TaskIds, k \in Workers : WorkerStart(t, k)
    \/ \E t \in TaskIds, k \in Workers : FetchSuccess(t, k)
    \/ \E t \in TaskIds, k \in Workers : FetchError(t, k, "connection")
    \/ \E t \in TaskIds, k \in Workers : FetchTimeout(t, k)
    \/ \E t \in TaskIds, k \in Workers : WorkerWake(t, k)
    \/ \E t \in TaskIds, b \in BOOLEAN : BatchDone(t, b)
    \/ \E t \in TaskIds, b \in BOOLEAN : BatchTimeout(t, b)
    \/ \E t \in TaskIds : CancelTask(t)
    \/ \E t \in TaskIds : RoutineCancelled(t)
    \/ Tick

Spec == Init /\ [][Next]_vars

\* SpecQueue: an orchestrator built with max_concurrent_tasks = 1 and
\* MaxTasks tasks submitted to it, so that tasks queue at the task semaphore.
\* The requests ask for depth 2 without a question, a discovery finds at
\* most one link, and a fetch returns an article or is cut off by its
\* timeout.
QueueRequests == {r \in Requests : r.max_depth = 2 /\ ~r.question /\ r.domain = 1}

InitQueue == Orchestrator(1, 1)

NextQueue ==
    \/ \E request \in QueueRequests : Submit(request)
    \/ \E t \in TaskIds : RoutineStart(t)
    \/ \E t \in TaskIds : RoutineAcquire(t)
    \/ \E t \in TaskIds, n \in 0..1 : DiscoveryReturn(t, n, FALSE)
    \/ \E t \in TaskIds : DiscoveryFail(t)
    \/ \E t \in TaskIds, k \in Workers : WorkerStart(t, k)
    \/ \E t \in TaskIds, k \in Workers : FetchSuccess(t, k)
    \/ \E t \in TaskIds, k \in Workers : FetchTimeout(t, k)
    \/ \E t \in TaskIds, k \in Workers : WorkerWake(t, k)
    \/ \E t \in TaskIds : BatchDone(t, FALSE)
    \/ \E t \in TaskIds : BatchTimeout(t, FALSE)
    \/ \E t \in TaskIds : CancelTask(t)
    \/ \E t \in TaskIds : RoutineCancelled(t)
    \/ Tick

SpecQueue == InitQueue /\ [][NextQueue]_vars

\* SpecFair and SpecQueueFair: the same with the scheduling the event loop
\* gives.  A coroutine that can be resumed is resumed; a fetch returns,
\* fails or is cut off by its timeout; asyncio.Semaphore serves its waiters
\* in turn, so a waiter is not passed over for ever.
Fairness ==
    \A t \in TaskIds :
        /\ WF_vars(RoutineStart(t))
        /\ SF_vars(RoutineAcquire(t))
        /\ WF_vars(DiscoveryFail(t) \/ \E n \in 0..1 : DiscoveryReturn(t, n, FALSE))
        /\ WF_vars(BatchDone(t, FALSE))
        /\ WF_vars(BatchTimeout(t, FALSE))
        /\ WF_vars(RoutineCancelled(t))
        /\ \A k \in Workers :
               /\ WF_vars(WorkerStart(t, k))
               /\ WF_vars(WorkerWake(t, k))
               /\ WF_vars(FetchTimeout(t, k) \/ FetchSuccess(t, k)
                          \/ \E kind \in {"connection", "other"} : FetchError(t, k, kind))

SpecQueueFair == SpecQueue /\ Fairness

\* SpecScenario: one task of depth 2 without a question whose discovery
\* finds MaxLinks links and whose fetches each end, with an article or with a
\* ConnectionError, before any timeout.
ScenarioRequests == {r \in Requests : r.max_depth = 2 /\ ~r.question}

NextScenario ==
    \/ \E request \in ScenarioRequests : tasks = <<>> /\ Submit(request)
    \/ \E t \in TaskIds : RoutineStart(t)
    \/ \E t \in TaskIds : DiscoveryReturn(t, MaxLinks, FALSE)
    \/ \E t \in TaskIds, k \in Workers : WorkerStart(t, k)
    \/ \E t \in TaskIds, k \in Workers : FetchSuccess(t, k)
    \/ \E t \in TaskIds, k \in Workers : FetchError(t, k, "connection")
    \/ \E t \in TaskIds, k \in Workers : WorkerWake(t, k)
    \/ \E t \in TaskIds : BatchDone(t, FALSE)
    \/ Tick

SpecScenario == Init /\ [][NextScenario]_vars

\* SpecDeadline: one task of depth 2 with a timeout budget of one minute
\* whose discovery finds at least two links, on a clock of half minutes.  A
\* fetch returns an article or is cut off by its timeout.
DeadlineRequests ==
    {r \in Requests : r.max_depth = 2 /\ r.timeout_minutes = 1 /\ ~r.question}

NextDeadline ==
    \/ \E request \in DeadlineRequests : tasks = <<>> /\ Submit(request)
    \/ \E t \in TaskIds : RoutineStart(t)
    \/ \E t \in TaskIds, n \in 2..MaxLinks : DiscoveryReturn(t, n, FALSE)
    \/ \E t \in TaskIds, k \in Workers : WorkerStart(t, k)
    \/ \E t \in TaskIds, k \in Workers : FetchSuccess(t, k)
    \/ \E t \in TaskIds, k \in Workers : FetchTimeout(t, k)
    \/ \E t \in TaskIds, k \in Workers : WorkerWake(t, k)
    \/ \E t \in TaskIds : BatchDone(t, FALSE)
    \/ \E t \in TaskIds : BatchTimeout(t, FALSE)
    \/ HalfTick

SpecDeadline == Init /\ [][NextDeadline]_vars

\* SpecShared: an orchestrator built with max_concurrent_tasks = 2 and
\* max_concurrent_articles = 1, and two tasks of depth 2 running on it at
\* the same time, each with one link: their article tasks meet at
\* self.article_semaphore.
SharedRequests ==
    {r \in QueueRequests : r.timeout_minutes = MaxTimeoutMinutes}

InitShared == Orchestrator(2, 1)

NextShared ==
    \/ \E request \in SharedRequests : Submit(request)
    \/ \E t \in TaskIds : RoutineStart(t)
    \/ \E t \in TaskIds : DiscoveryReturn(t, 1, FALSE)
    \/ \E t \in TaskIds, k \in Workers : WorkerStart(t, k)
    \/ \E t \in TaskIds, k \in Workers : WorkerAcquire(t, k)
    \/ \E t \in TaskIds, k \in Workers : FetchSuccess(t, k)
    \/ \E t \in TaskIds, k \in Workers : FetchTimeout(t, k)
    \/ \E t \in TaskIds, k \in Workers : WorkerWake(t, k)
    \/ \E t \in TaskIds : BatchDone(t, FALSE)
    \/ \E t \in TaskIds : BatchTimeout(t, FALSE)
    \/ Tick

SpecShared == InitShared /\ [][NextShared]_vars

\* SpecBreaker: the circuit breaker of one orchestrator by itself, with
\* record_failure, is_blocked and record_success called for the site's
\* domain and for one other domain in any order while the clock advances by
\* minutes.  No task is submitted.
BreakerDomains == {1, NumDomains + 1}

RecordFailure(domain) ==
    /\ Get(circuit_breaker.failures, domain, 0) < MaxFailures
    /\ circuit_breaker' = record_failure(circuit_breaker, domain)
    /\ UNCHANGED <<config, error_stats, response, now, tasks, active_tasks, routine, batch_tasks,
                   task_semaphore, article_semaphore>>

IsBlocked(domain) ==
    /\ circuit_breaker' = is_blocked_effect(circuit_breaker, domain)
    /\ UNCHANGED <<config, error_stats, response, now, tasks, active_tasks, routine, batch_tasks,
                   task_semaphore, article_semaphore>>

RecordSuccess(domain) ==
    /\ circuit_breaker' = record_success(circuit_breaker, domain)
    /\ UNCHANGED <<config, error_stats, response, now, tasks, active_tasks, routine, batch_tasks,
                   task_semaphore, article_semaphore>>

BreakerTick ==
    /\ now + SecondsPerMinute <= MaxCooldownMinutes * SecondsPerMinute
    /\ now' = now + SecondsPerMinute
    /\ UNCHANGED <<config, error_stats, response, tasks, active_tasks, routine, batch_tasks,
                   task_semaphore, article_semaphore, circuit_breaker>>

NextBreaker ==
    \/ \E domain \in BreakerDomains : RecordFailure(domain)
    \/ \E domain \in BreakerDomains : IsBlocked(domain)
    \/ \E domain \in BreakerDomains : RecordSuccess(domain)
    \/ BreakerTick

SpecBreaker == Init /\ [][NextBreaker]_vars

\* SpecQueries: an orchestrator built with max_concurrent_tasks = 1, MaxTasks
\* tasks of depth 2 submitted to it, each with at most one link, and the
\* queries and cancel_task called at any moment, for known and unknown ids,
\* every status filter and limits from -1 on.  The clock stands still.
Ids == 1..(MaxTasks + 1)
Filters == {NoFilter, PENDING, RUNNING, COMPLETED, FAILED, PARTIAL, CANCELLED}
Limits == -1..MaxTasks

NextQueries ==
    \/ \E request \in SharedRequests : Submit(request)
    \/ \E t \in TaskIds : RoutineStart(t)
    \/ \E t \in TaskIds : RoutineAcquire(t)
    \/ \E t \in TaskIds, n \in 0..1 : DiscoveryReturn(t, n, FALSE)
    \/ \E t \in TaskIds : DiscoveryFail(t)
    \/ \E t \in TaskIds, k \in Workers : WorkerStart(t, k)
    \/ \E t \in TaskIds, k \in Workers : FetchSuccess(t, k)
    \/ \E t \in TaskIds : BatchDone(t, FALSE)
    \/ \E task_id \in Ids : CancelTask(task_id)
    \/ \E t \in TaskIds : RoutineCancelled(t)
    \/ \E task_id \in Ids : GetTaskStatus(task_id)
    \/ \E task_id \in Ids, include_errors \in BOOLEAN :
           GetTaskResults(task_id, include_errors)
    \/ \E status_filter \in Filters, limit \in Limits :
           GetAllTasks(status_filter, limit)

SpecQueries == InitQueue /\ [][NextQueries]_vars

\* SpecHealth: the same orchestrator with MaxTasks tasks of one link each,
\* whose fetches return an article or raise an exception, and health_check
\* called at any moment.  Before the first submission one domain after
\* another of MaxBlockedDomains + 1 other domains has failed until the
\* circuit breaker blocked it.  The clock stands still.
HealthDomains == (NumDomains + 1)..(NumDomains + MaxBlockedDomains + 1)

FailInTurn(domain) ==
    /\ tasks = <<>>
    /\ domain \notin circuit_breaker.blocked_domains
    /\ \A d \in HealthDomains : d < domain => d \in circuit_breaker.blocked_domains
    /\ RecordFailure(domain)

NextHealth ==
    \/ \E request \in SharedRequests : Submit(request)
    \/ \E t \in TaskIds : RoutineStart(t)
    \/ \E t \in TaskIds : RoutineAcquire(t)
    \/ \E t \in TaskIds : DiscoveryReturn(t, 1, FALSE)
    \/ \E t \in TaskIds, k \in Workers : WorkerStart(t, k)
    \/ \E t \in TaskIds, k \in Workers : FetchSuccess(t, k)
    \/ \E t \in TaskIds, k \in Workers : FetchError(t, k, "other")
    \/ \E t \in TaskIds, k \in Workers : WorkerWake(t, k)
    \/ \E t \in TaskIds : BatchDone(t, FALSE)
    \/ \E domain \in HealthDomains : FailInTurn(domain)
    \/ HealthCheck

SpecHealth == InitQueue /\ [][NextHealth]_vars

\* SpecWorker: one task of depth 2 without a question whose discovery finds
\* one or two links, with every outcome of every fetch attempt of its article
\* tasks: an article, a ConnectionError, another exception, the timeout; with
\* the batch timeout and cancel_task.  Before the submission the site's
\* domain has failed any number of times up to MaxFailures, so that the
\* circuit breaker may block it before or while the article tasks run.
NextWorker ==
    \/ \E domain \in Domains : tasks = <<>> /\ RecordFailure(domain)
    \/ \E request \in ScenarioRequests : tasks = <<>> /\ Submit(request)
    \/ \E t \in TaskIds : RoutineStart(t)
    \/ \E t \in TaskIds, n \in 1..2 : DiscoveryReturn(t, n, FALSE)
    \/ \E t \in TaskIds, k \in Workers : WorkerStart(t, k)
    \/ \E t \in TaskIds, k \in Workers : FetchSuccess(t, k)
    \/ \E t \in TaskIds, k \in Workers, kind \in {"connection", "other"} :
           FetchError(t, k, kind)
    \/ \E t \in TaskIds, k \in Workers : FetchTimeout(t, k)
    \/ \E t \in TaskIds, k \in Workers : WorkerWake(t, k)
    \/ \E t \in TaskIds : BatchDone(t, FALSE)
    \/ \E t \in TaskIds : BatchTimeout(t, FALSE)
    \/ \E t \in TaskIds : CancelTask(t)
    \/ \E t \in TaskIds : RoutineCancelled(t)
    \/ Tick

SpecWorker == Init /\ [][NextWorker]_vars

\* SpecCapacity: the orchestrator of SpecQueries, with max_concurrent_tasks
\* = 1, and MaxTasks tasks submitted to it, each with at most one link, ended
\* by themselves or by cancel_task, with health_check called at any moment.
\* The clock stands still.
NextCapacity ==
    \/ \E request \in SharedRequests : Submit(request)
    \/ \E t \in TaskIds : RoutineStart(t)
    \/ \E t \in TaskIds : RoutineAcquire(t)
    \/ \E t \in TaskIds, n \in 0..1 : DiscoveryReturn(t, n, FALSE)
    \/ \E t \in TaskIds : DiscoveryFail(t)
    \/ \E t \in TaskIds, k \in Workers : WorkerStart(t, k)
    \/ \E t \in TaskIds, k \in Workers : FetchSuccess(t, k)
    \/ \E t \in TaskIds : BatchDone(t, FALSE)
    \/ \E task_id \in Ids : CancelTask(task_id)
    \/ \E t \in TaskIds : RoutineCancelled(t)
    \/ HealthCheck

SpecCapacity == InitQueue /\ [][NextCapacity]_vars

\* ================================================================ claims
\* The coroutine of task t ends in this step by itself: it returns, after
\* finalize or through the outermost exception handler.
Returns(t) ==
    /\ routine[t].pc \in {"discovering", "batch_wait"}
    /\ routine'[t].pc = "done"

\* The errors of a record other than those finalize and phase 3 append.
EarlierErrors(tr) ==
    SelectSeq(tr.errors, LAMBDA e : e \notin {TimedOutError, AnalysisError})

HasError(tr, e) == \E j \in DOMAIN tr.errors : tr.errors[j] = e

\* p <= q for two progress fractions.
ProgressLeq(p, q) == p.num * q.den <= q.num * p.den

\* C1: a coroutine that reaches finalize leaves the status Failed if there
\* is no result; else Partial, with the timed-out error appended, if the
\* time since its start is at least the timeout budget; else Partial if an
\* error was recorded; else Completed.
C1_FinalizeOrder ==
    [][\A t \in TaskIds :
          Returns(t) /\ Len(tasks'[t].results) > 0 =>
              LET elapsed == now - routine[t].start_time
                  budget == routine[t].request.timeout_minutes * SecondsPerMinute
                  tr == tasks'[t]
              IN  /\ tr.status =
                        IF elapsed >= budget THEN PARTIAL
                        ELSE IF Len(EarlierErrors(tr)) > 0 THEN PARTIAL
                        ELSE COMPLETED
                  /\ HasError(tr, TimedOutError) <=> elapsed >= budget
                  /\ tr.completed_at = now]_vars

\* C1 witness: a task that reached its deadline with results ended Partial
\* with the timed-out error.
C1_Witness ==
    \E t \in DOMAIN tasks :
        /\ routine[t].pc = "done"
        /\ tasks[t].status = PARTIAL
        /\ HasError(tasks[t], TimedOutError)
        /\ Len(tasks[t].results) >= 2

\* C2: a task without results is never Completed or Partial, and a
\* coroutine that returns leaving no result leaves the status Failed.
C2_NoResultsFailed ==
    /\ [](\A t \in DOMAIN tasks :
              Len(tasks[t].results) = 0 => tasks[t].status \notin {COMPLETED, PARTIAL})
    /\ [][\A t \in TaskIds :
              Returns(t) /\ Len(tasks'[t].results) = 0 => tasks'[t].status = FAILED]_vars

\* C2 witness: a coroutine has returned leaving no result.
C2_Witness ==
    \E t \in DOMAIN tasks :
        /\ routine[t].pc = "done"
        /\ Len(tasks[t].results) = 0
        /\ tasks[t].status = FAILED

\* C3: completed_items + failed_items <= total_items in every state, all
\* three being 0 until discovery has set total_items.
C3_CountersBounded ==
    \A t \in DOMAIN tasks :
        /\ tasks[t].completed_items + tasks[t].failed_items <= tasks[t].total_items
        /\ tasks[t].completed_items >= 0
        /\ tasks[t].failed_items >= 0
        /\ routine[t].pc \in {"created", "sem_wait", "discovering"} =>
               /\ tasks[t].total_items = 0
               /\ tasks[t].completed_items = 0
               /\ tasks[t].failed_items = 0
        /\ routine[t].pc = "batch_wait" =>
               tasks[t].total_items = 1 + routine[t].found_links

\* C3 witness: every item of a task with links is counted, some as failed.
C3_Witness ==
    \E t \in DOMAIN tasks :
        /\ tasks[t].total_items >= 3
        /\ tasks[t].completed_items + tasks[t].failed_items = tasks[t].total_items
        /\ tasks[t].failed_items >= 1

\* C4: progress never decreases, and it equals
\* (completed_items + failed_items) / max(total_items, 1) * 100.
C4_ProgressMonotonic ==
    /\ [][\A t \in DOMAIN tasks :
              ProgressLeq(tasks[t].progress, tasks'[t].progress)]_vars
    /\ [](\A t \in DOMAIN tasks :
              tasks[t].progress.num * Max(tasks[t].total_items, 1)
                  = (tasks[t].completed_items + tasks[t].failed_items) * 100
                        * tasks[t].progress.den)

\* C4 witness: a task is under way with progress strictly between 0 and 100,
\* past its first batch.
C4_Witness ==
    \E t \in DOMAIN tasks :
        /\ routine[t].pc = "batch_wait"
        /\ routine[t].i > 1
        /\ tasks[t].progress.num > 0
        /\ tasks[t].progress.num < 100 * tasks[t].progress.den

\* C5 (as claimed): a terminal status never changes, and the only changes
\* of status are Pending -> Running and Pending or Running -> terminal.
C5_TerminalFinal ==
    [][\A t \in DOMAIN tasks :
          /\ tasks[t].status \in TerminalStatus => tasks'[t].status = tasks[t].status
          /\ tasks'[t].status # tasks[t].status =>
                 \/ tasks[t].status = PENDING /\ tasks'[t].status = RUNNING
                 \/ /\ tasks[t].status \in {PENDING, RUNNING}
                    /\ tasks'[t].status \in TerminalStatus]_vars

\* C6: cancel_task leaves a Pending or Running task Cancelled with
\* completed_at set and its coroutine cancelled; once a task is Cancelled it
\* stays Cancelled and its counters, progress and results no longer change.
C6_CancelledFrozen ==
    /\ [][\A t \in DOMAIN tasks :
              tasks[t].status = CANCELLED =>
                  /\ tasks'[t].status = CANCELLED
                  /\ tasks'[t].completed_items = tasks[t].completed_items
                  /\ tasks'[t].failed_items = tasks[t].failed_items
                  /\ tasks'[t].progress = tasks[t].progress
                  /\ tasks'[t].results = tasks[t].results]_vars
    /\ [][\A t \in DOMAIN tasks :
              tasks[t].status \in {PENDING, RUNNING} /\ tasks'[t].status = CANCELLED =>
                  /\ tasks'[t].completed_at = now
                  /\ t \notin active_tasks']_vars
    /\ [](\A t \in DOMAIN tasks :
              tasks[t].status = CANCELLED => tasks[t].completed_at # None)

\* C6 witness: a task cancelled while its first batch was awaited; its
\* coroutine has ended.
C6_Witness ==
    \E t \in DOMAIN tasks :
        /\ tasks[t].status = CANCELLED
        /\ routine[t].pc = "cancelled"
        /\ Len(tasks[t].results) >= 1
        /\ tasks[t].total_items >= 2

\* C7: when the coroutine of a task has ended, the status is terminal, the
\* task is not in active_tasks and is in tasks; an exception in it leaves
\* Failed, the message as last error and completed_at set.
C7_ExitedIsTerminal ==
    /\ [](\A t \in TaskIds :
              routine[t].pc \in {"done", "cancelled"} =>
                  /\ t \in DOMAIN tasks
                  /\ tasks[t].status \in TerminalStatus
                  /\ t \notin active_tasks)
    /\ [][\A t \in TaskIds :
              Returns(t) /\ Len(tasks'[t].results) = 0 =>
                  /\ tasks'[t].status = FAILED
                  /\ tasks'[t].errors = Append(tasks[t].errors, ExecutionError)
                  /\ tasks'[t].completed_at = now]_vars

\* C7 witness: a coroutine ended by an exception.
C7_Witness ==
    \E t \in DOMAIN tasks :
        /\ routine[t].pc = "done"
        /\ tasks[t].status = FAILED
        /\ tasks[t].errors = <<ExecutionError>>
        /\ t \notin active_tasks

\* C8: submit succeeds whatever the semaphore holds and leaves a fresh
\* task Pending; at most max_concurrent_tasks tasks are Running; a Pending
\* task becomes Running only by taking a free permit.
C8_SubmitNeverWaits ==
    /\ [](Cardinality({t \in DOMAIN tasks : tasks[t].status = RUNNING})
              <= max_concurrent_tasks)
    /\ [](Cardinality(DOMAIN tasks) < MaxTasks =>
              ENABLED (\E request \in QueueRequests : Submit(request)))
    /\ [][\A t \in DOMAIN tasks' \ DOMAIN tasks :
              /\ tasks'[t].status = PENDING
              /\ t \in active_tasks'
              /\ task_semaphore' = task_semaphore
              /\ \A u \in DOMAIN tasks : tasks'[u] = tasks[u]]_vars
    /\ [][\A t \in DOMAIN tasks :
              tasks[t].status = PENDING /\ tasks'[t].status = RUNNING =>
                  task_semaphore > 0 /\ task_semaphore' = task_semaphore - 1]_vars

\* C8 witness: a task is submitted and queued, Pending, while
\* max_concurrent_tasks tasks are Running.
C8_Witness ==
    /\ task_semaphore = 0
    /\ Cardinality({t \in DOMAIN tasks : tasks[t].status = RUNNING})
           = max_concurrent_tasks
    /\ \E t \in DOMAIN tasks :
           tasks[t].status = PENDING /\ routine[t].pc = "sem_wait"

\* C9: every submitted task eventually has a terminal status.
C9_EventuallyTerminal ==
    \A t \in TaskIds :
        (t \in DOMAIN tasks) ~>
            (t \in DOMAIN tasks /\ tasks[t].status \in TerminalStatus)

\* C9 witness: a task still queued behind the semaphore when its timeout
\* budget has passed.
C9_Witness ==
    \E t \in DOMAIN tasks :
        /\ routine[t].pc = "sem_wait"
        /\ tasks[t].status = PENDING
        /\ now - routine[t].start_time
               >= routine[t].request.timeout_minutes * SecondsPerMinute

\* C10 (as claimed): a task of depth 2 with 3 links, of which one fetch
\* ends all its attempts with a ConnectionError and the deadline is not
\* reached, ends Partial with 3 completed, 1 failed and exactly one error.
C10_OneConnectionFailure ==
    \A t \in DOMAIN tasks :
        /\ routine[t].pc = "done"
        /\ tasks[t].total_items = 4
        /\ tasks[t].failed_items = 1
        /\ ~HasError(tasks[t], TimedOutError)
        => /\ tasks[t].status = PARTIAL
           /\ tasks[t].completed_items = 3
           /\ Len(tasks[t].errors) = 1

\* C11 (as claimed): a task with a timeout budget of one minute whose
\* discovery finds several links and which ends before every item is done
\* ends Partial, at a minute or later, with the timed-out error.
C11_DeadlinePartial ==
    \A t \in DOMAIN tasks :
        /\ routine[t].pc = "done"
        /\ tasks[t].total_items >= 3
        /\ tasks[t].completed_items + tasks[t].failed_items < tasks[t].total_items
        => /\ tasks[t].status = PARTIAL
           /\ HasError(tasks[t], TimedOutError)
           /\ tasks[t].completed_at >= SecondsPerMinute

\* C12: a discovery that fails ends the task Failed with total_items = 0, no
\* result, exactly one error and completed_at set; a discovery ends in this
\* way or with the main page as a result; no article task exists before the
\* discovery has returned, nor once the coroutine has ended.
C12_DiscoveryFailure ==
    /\ [][\A t \in TaskIds :
              routine[t].pc = "discovering" /\ routine'[t].pc = "done" =>
                  \/ /\ Len(tasks'[t].results) >= 1
                     /\ tasks'[t].total_items >= 1
                     /\ ~HasError(tasks'[t], ExecutionError)
                  \/ /\ tasks'[t].status = FAILED
                     /\ tasks'[t].total_items = 0
                     /\ tasks'[t].results = <<>>
                     /\ tasks'[t].errors = <<ExecutionError>>
                     /\ tasks'[t].completed_at = now
                     /\ tasks'[t].completed_items = 0
                     /\ tasks'[t].failed_items = 0]_vars
    /\ [](\A t \in TaskIds :
              routine[t].pc \in {"none", "created", "sem_wait", "discovering",
                                 "done", "cancelled"}
                  => batch_tasks[t] = <<>>)
    /\ [](\A t \in DOMAIN tasks :
              tasks[t].total_items = 0 => tasks[t].results = <<>>)

\* C12 witness: a discovery failed after a minute or more.
C12_Witness ==
    \E t \in DOMAIN tasks :
        /\ routine[t].pc = "done"
        /\ tasks[t].status = FAILED
        /\ tasks[t].total_items = 0
        /\ tasks[t].errors = <<ExecutionError>>
        /\ tasks[t].completed_at >= SecondsPerMinute

\* C13: a task of depth 2 whose discovery finds 3 links and whose 3 articles
\* are all fetched before the deadline ends Completed with total_items = 4,
\* completed_items = 4, failed_items = 0, four results and no error.
C13_AllFetched ==
    \A t \in DOMAIN tasks :
        /\ routine[t].pc = "done"
        /\ tasks[t].total_items = 4
        /\ Len(tasks[t].results) = 4
        /\ ~HasError(tasks[t], TimedOutError)
        => /\ tasks[t].status = COMPLETED
           /\ tasks[t].completed_items = 4
           /\ tasks[t].failed_items = 0
           /\ tasks[t].errors = <<>>
           /\ tasks[t].progress = [num |-> 400, den |-> 4]
           /\ tasks[t].completed_at # None

\* C13 witness: the three articles are fetched, the last of them a minute
\* or more after the submission.
C13_Witness ==
    \E t \in DOMAIN tasks :
        /\ routine[t].pc = "done"
        /\ tasks[t].total_items = 4
        /\ Len(tasks[t].results) = 4
        /\ tasks[t].status = COMPLETED
        /\ tasks[t].completed_at >= SecondsPerMinute

\* n consecutive calls of record_failure for a domain.
RECURSIVE RecordFailures(_, _, _)
RecordFailures(cb, domain, n) ==
    IF n = 0 THEN cb ELSE record_failure(RecordFailures(cb, domain, n - 1), domain)

\* C14: for a domain without recorded failures is_blocked returns false
\* after fewer than failure_threshold calls of record_failure and true after
\* failure_threshold of them, and these calls leave is_blocked of every
\* other domain as it was; a domain becomes blocked only in a step that
\* raises its count, by one, to failure_threshold or more, and a step that
\* raises a domain's count touches no other domain.
C14_Threshold ==
    /\ [](\A d \in BreakerDomains :
              Get(circuit_breaker.failures, d, 0) = 0
              /\ d \notin circuit_breaker.blocked_domains =>
                  /\ \A n \in 0..(failure_threshold - 1) :
                         ~is_blocked(RecordFailures(circuit_breaker, d, n), d)
                  /\ is_blocked(RecordFailures(circuit_breaker, d, failure_threshold), d)
                  /\ \A e \in BreakerDomains \ {d}, n \in 0..failure_threshold :
                         is_blocked(RecordFailures(circuit_breaker, d, n), e)
                             = is_blocked(circuit_breaker, e))
    /\ [][\A d \in BreakerDomains :
              LET before == Get(circuit_breaker.failures, d, 0)
                  after == Get(circuit_breaker'.failures, d, 0)
              IN  /\ d \notin circuit_breaker.blocked_domains
                     /\ d \in circuit_breaker'.blocked_domains
                     => after = before + 1 /\ after >= failure_threshold
                  /\ after > before =>
                        /\ after = before + 1
                        /\ circuit_breaker'.last_failure_time[d] = now
                        /\ after >= failure_threshold
                               => d \in circuit_breaker'.blocked_domains
                        /\ \A e \in BreakerDomains \ {d} :
                               /\ Get(circuit_breaker'.failures, e, 0)
                                      = Get(circuit_breaker.failures, e, 0)
                               /\ e \in circuit_breaker'.blocked_domains
                                      <=> e \in circuit_breaker.blocked_domains]_vars

\* C14 witness: one domain blocked by exactly failure_threshold failures
\* while another, one failure short of it, is not.
C14_Witness ==
    \E d, e \in BreakerDomains :
        /\ Get(circuit_breaker.failures, d, 0) = failure_threshold
        /\ is_blocked(circuit_breaker, d)
        /\ Get(circuit_breaker.failures, e, 0) = failure_threshold - 1
        /\ ~is_blocked(circuit_breaker, e)
        /\ e \notin circuit_breaker.blocked_domains

\* The time since the last failure recorded for a domain.
SinceLastFailure(d) == now - Get(circuit_breaker.last_failure_time, d, 0)

\* A circuit breaker with domain d taken out of it.
Others(cb, d) ==
    [failures |-> [e \in DOMAIN cb.failures \ {d} |-> cb.failures[e]],
     last_failure_time |->
         [e \in DOMAIN cb.last_failure_time \ {d} |-> cb.last_failure_time[e]],
     blocked_domains |-> cb.blocked_domains \ {d}]

\* C15: for a blocked domain is_blocked returns true, and changes nothing,
\* as long as the time since the last failure is at most timeout_seconds;
\* a call after that returns false, sets the count to 0 and unblocks the
\* domain, and the next call returns false; is_blocked returns false for a
\* domain that is not blocked and changes nothing; a blocked domain with a
\* count of 2 or more loses the block with count 0 only after the cooldown.
C15_SelfHealing ==
    /\ [](\A d \in BreakerDomains :
              LET cb == circuit_breaker
                  cb2 == is_blocked_effect(cb, d)
              IN  /\ d \in cb.blocked_domains /\ SinceLastFailure(d) <= timeout_seconds
                     => is_blocked(cb, d) /\ cb2 = cb
                  /\ d \in cb.blocked_domains /\ SinceLastFailure(d) > timeout_seconds
                     => /\ ~is_blocked(cb, d)
                        /\ d \notin cb2.blocked_domains
                        /\ cb2.failures[d] = 0
                        /\ cb2.last_failure_time = cb.last_failure_time
                        /\ Others(cb2, d) = Others(cb, d)
                  /\ d \notin cb.blocked_domains
                     => ~is_blocked(cb, d) /\ cb2 = cb)
    /\ [][\A d \in BreakerDomains :
              /\ d \in circuit_breaker.blocked_domains
              /\ d \notin circuit_breaker'.blocked_domains
              /\ circuit_breaker.failures[d] >= 2
              => /\ SinceLastFailure(d) > timeout_seconds
                 /\ circuit_breaker'.failures[d] = 0]_vars

\* C15 witness: a domain blocked with a count of 2 or more whose cooldown
\* is over: is_blocked returns false for it and resets it.
C15_Witness ==
    \E d \in BreakerDomains :
        /\ d \in circuit_breaker.blocked_domains
        /\ circuit_breaker.failures[d] >= 2
        /\ SinceLastFailure(d) > timeout_seconds
        /\ ~is_blocked(circuit_breaker, d)
        /\ is_blocked_effect(circuit_breaker, d).failures[d] = 0

\* C16: record_success lowers the count of a domain by exactly one, not
\* below 0, and changes nothing else but the block, which it lifts exactly
\* when the count reaches 0; a blocked domain with a count of 2 or more
\* stays blocked; for a domain with a count of 0 or none it changes nothing.
C16_SuccessDecrements ==
    \A d \in BreakerDomains :
        LET cb == circuit_breaker
            cb2 == record_success(cb, d)
            k == Get(cb.failures, d, 0)
        IN  /\ k >= 0
            /\ Get(cb2.failures, d, 0) = Max(0, k - 1)
            /\ k = 0 => cb2 = cb
            /\ cb2.last_failure_time = cb.last_failure_time
            /\ Others(cb2, d) = Others(cb, d)
            /\ d \in cb.blocked_domains /\ k >= 2
                   => d \in cb2.blocked_domains /\ (is_blocked(cb2, d) <=> is_blocked(cb, d))
            /\ d \in cb.blocked_domains /\ k = 1 => d \notin cb2.blocked_domains
            /\ d \notin cb.blocked_domains => d \notin cb2.blocked_domains

\* C16 witness: a domain blocked at the threshold had one success: its
\* count is one lower and it is still blocked.
C16_Witness ==
    \E d \in BreakerDomains :
        /\ d \in circuit_breaker.blocked_domains
        /\ circuit_breaker.failures[d] = failure_threshold - 1
        /\ SinceLastFailure(d) <= timeout_seconds
        /\ is_blocked(circuit_breaker, d)

\* C17 (as claimed): the article limiter is per task: an article task waits
\* for a permit only when the article tasks of its own task hold
\* max_concurrent_articles permits.
C17_PerTaskLimiter ==
    \A t \in DOMAIN tasks :
        \A k \in DOMAIN batch_tasks[t] :
            batch_tasks[t][k].st = "sem_wait"
                => PermitsHeld(batch_tasks[t]) >= max_concurrent_articles

\* The number of article tasks of a batch that ended with a result.
Ended(batch, result) ==
    Cardinality({k \in DOMAIN batch : batch[k].st = "done" /\ batch[k].result = result})

CountError(tr, e) == Len(SelectSeq(tr.errors, LAMBDA x : x = e))

\* C19: phase 3 applied to any record a task can have, for any request and
\* either outcome of the analysis, leaves status, results, counters,
\* progress and completed_at as they are; a failed analysis appends one
\* error and nothing else, a successful one only stores its reports in
\* metadata, a skipped one changes nothing.  A coroutine that returns after
\* a failed analysis leaves the status finalize decides from the deadline
\* and the earlier errors, with the analysis error as the one last entry.
C19_Phase3KeepsStatus ==
    /\ [](\A t \in DOMAIN tasks, request \in Requests, b \in BOOLEAN :
              LET tr == tasks[t]
                  tr3 == phase3(tr, request, b)
                  runs == request.question /\ Len(tr.results) > 0
              IN  /\ tr3.status = tr.status
                  /\ tr3.results = tr.results
                  /\ tr3.completed_items = tr.completed_items
                  /\ tr3.failed_items = tr.failed_items
                  /\ tr3.total_items = tr.total_items
                  /\ tr3.progress = tr.progress
                  /\ tr3.completed_at = tr.completed_at
                  /\ ~runs => tr3 = tr
                  /\ runs /\ b => /\ tr3.errors = Append(tr.errors, AnalysisError)
                                  /\ tr3.metadata = tr.metadata
                  /\ runs /\ ~b => /\ tr3.errors = tr.errors
                                   /\ tr3.metadata.ai_reports)
    /\ [][\A t \in TaskIds :
              Returns(t) /\ HasError(tasks'[t], AnalysisError) =>
                  LET elapsed == now - routine[t].start_time
                      budget == routine[t].request.timeout_minutes * SecondsPerMinute
                      tr == tasks'[t]
                  IN  /\ routine[t].request.question
                      /\ tr.status =
                            IF elapsed >= budget THEN PARTIAL
                            ELSE IF Len(EarlierErrors(tr)) > 0 THEN PARTIAL
                            ELSE COMPLETED
                      /\ tr.errors[Len(tr.errors)] = AnalysisError
                      /\ CountError(tr, AnalysisError) = 1
                      /\ ~tr.metadata.ai_reports]_vars
    /\ [](\A t \in DOMAIN tasks :
              tasks[t].metadata.ai_reports =>
                  /\ tasks[t].status \in TerminalStatus
                  /\ Len(tasks[t].results) > 0
                  /\ ~HasError(tasks[t], AnalysisError))

\* C19 witness: a task whose analysis failed is Completed, the failure being
\* its only error.
C19_Witness ==
    \E t \in DOMAIN tasks :
        /\ routine[t].pc = "done"
        /\ tasks[t].status = COMPLETED
        /\ tasks[t].errors = <<AnalysisError>>
        /\ Len(tasks[t].results) >= 2

\* The counts update_progress is called with.
Counts == 0..(MaxLinks + 1)

\* C20: update_progress(completed, failed), applied to any record a task
\* can have, sets the two counters and the progress; if completed + failed
\* >= total_items it sets completed_at and the status Completed for failed
\* = 0, Partial for completed > 0 and failed > 0, Failed for completed = 0
\* and failed > 0; otherwise it leaves status and completed_at; it never
\* changes results, errors, total_items or metadata.  A running task that
\* goes on to await a batch has counters below total_items and stays
\* Running with completed_at unset.
C20_UpdateProgress ==
    /\ [](\A t \in DOMAIN tasks, completed \in Counts, failed \in Counts :
              LET tr == tasks[t]
                  u == update_progress(tr, completed, failed)
              IN  /\ u.completed_items = completed
                  /\ u.failed_items = failed
                  /\ u.progress.den >= 1
                  /\ u.progress.num * (IF tr.total_items >= 1 THEN tr.total_items ELSE 1)
                         = (completed + failed) * 100 * u.progress.den
                  /\ u.results = tr.results
                  /\ u.errors = tr.errors
                  /\ u.total_items = tr.total_items
                  /\ u.metadata = tr.metadata
                  /\ completed + failed >= tr.total_items =>
                         /\ u.completed_at = now
                         /\ failed = 0 => u.status = COMPLETED
                         /\ completed > 0 /\ failed > 0 => u.status = PARTIAL
                         /\ completed = 0 /\ failed > 0 => u.status = FAILED
                  /\ completed + failed < tr.total_items =>
                         /\ u.status = tr.status
                         /\ u.completed_at = tr.completed_at)
    /\ [][\A t \in DOMAIN tasks :
              /\ tasks[t].status = RUNNING
              /\ routine'[t].pc = "batch_wait"
              /\ tasks'[t].status # CANCELLED
              => /\ tasks'[t].status = RUNNING
                 /\ tasks'[t].completed_at = None
                 /\ tasks'[t].completed_items + tasks'[t].failed_items
                        < tasks'[t].total_items]_vars

\* C20 witness: the counters of a task reached total_items with a failure
\* among them, and update_progress set completed_at and full progress.
C20_Witness ==
    \E t \in DOMAIN tasks :
        /\ tasks[t].total_items >= 2
        /\ tasks[t].completed_items + tasks[t].failed_items = tasks[t].total_items
        /\ tasks[t].failed_items >= 1
        /\ tasks[t].completed_at # None
        /\ tasks[t].progress.num = 100 * tasks[t].progress.den
        /\ update_progress(tasks[t], tasks[t].completed_items,
                           tasks[t].failed_items).status = PARTIAL

\* The dictionary d of a query shows the status and the counters that task
\* task_id has in the registry.
Counters(d, registry, task_id) ==
    /\ d.total_items = registry[task_id].total_items
    /\ d.completed_items = registry[task_id].completed_items
    /\ d.failed_items = registry[task_id].failed_items

Reflects(d, registry, task_id) ==
    /\ d.status = registry[task_id].status
    /\ Counters(d, registry, task_id)

\* What a query has returned, against the registry it was called on.
QueryReflects(resp, registry) ==
    LET p == resp.params
        v == resp.returns
    IN  /\ resp.method = "get_task_status" =>
               IF p[1] \in DOMAIN registry
               THEN Reflects(v, registry, p[1])
               ELSE v = Nothing
        /\ resp.method = "get_task_results" =>
               IF p[1] \in DOMAIN registry
               THEN /\ v.status = registry[p[1]].status
                    /\ Counters(v.summary, registry, p[1])
                    /\ ("errors" \in DOMAIN v) = p[2]
                    /\ p[2] => v.errors = registry[p[1]].errors
               ELSE v = Nothing
        /\ resp.method = "get_all_tasks" =>
               /\ Len(v) <= Max(p[2], 0)
               /\ \A i \in 1..Len(v) :
                      /\ p[1] # NoFilter => v[i].status = p[1]
                      /\ v[i].task_id \in DOMAIN registry
                      /\ Reflects(v[i], registry, v[i].task_id)

\* C21: get_task_status, get_task_results and get_all_tasks are pure reads:
\* a step in which one of them returns changes no task, nothing of the
\* registry, of the active tasks or of the circuit breaker, and what it
\* returns are the status and the counters the registry holds at that moment.
\* For an id that is not in the registry get_task_status and
\* get_task_results return None, and cancel_task returns False and changes
\* nothing.  get_task_results has the errors list exactly when include_errors
\* is true.  get_all_tasks returns at most limit entries (none for a limit
\* below 1), each of the status asked for.
C21_PureReads ==
    [][/\ response' # response =>
              /\ UNCHANGED <<tasks, active_tasks, routine, batch_tasks,
                             circuit_breaker, error_stats>>
              /\ QueryReflects(response', tasks')
       /\ \A task_id \in Ids \ DOMAIN tasks :
              /\ ~cancel_task_returns(task_id)
              /\ CancelTask(task_id) => UNCHANGED vars]_vars

\* The state in which health_check calls the orchestrator degraded.
Degraded ==
    \/ 2 * SumErrors(error_stats) > Max(Len(tasks), 1)
    \/ Cardinality(circuit_breaker.blocked_domains) > MaxBlockedDomains

\* health_check returns in this step.
HealthCheckReturns ==
    /\ response' # response
    /\ response'.method = "health_check"

\* C22 as stated: the verdict of health_check is degraded exactly when the
\* error rate is above 0.5 or more than 5 domains are blocked, otherwise
\* at_capacity exactly when the number of active tasks equals
\* max_concurrent_tasks, otherwise healthy; health_check changes no state.
C22_VerdictEqual ==
    [][HealthCheckReturns =>
           LET status == response'.returns.status
           IN  /\ status \in {"degraded", "at_capacity", "healthy"}
               /\ (status = "degraded") = Degraded
               /\ ~Degraded =>
                      ((status = "at_capacity")
                           = (Cardinality(active_tasks) = max_concurrent_tasks))
               /\ UNCHANGED <<config, now, tasks, active_tasks, routine, batch_tasks,
                              task_semaphore, article_semaphore, circuit_breaker,
                              error_stats>>]_vars

\* C22, amended: the verdict of health_check is degraded exactly when the
\* error rate is above 0.5 or more than 5 domains are blocked, otherwise
\* at_capacity exactly when the number of active tasks is at least
\* max_concurrent_tasks, otherwise healthy; health_check changes no state.
C22_Verdict ==
    [][HealthCheckReturns =>
           LET status == response'.returns.status
           IN  /\ status \in {"degraded", "at_capacity", "healthy"}
               /\ (status = "degraded") = Degraded
               /\ ~Degraded =>
                      ((status = "at_capacity")
                           = (Cardinality(active_tasks) >= max_concurrent_tasks))
               /\ UNCHANGED <<config, now, tasks, active_tasks, routine, batch_tasks,
                              task_semaphore, article_semaphore, circuit_breaker,
                              error_stats>>]_vars

\* health_check has returned at_capacity with more tasks active than
\* max_concurrent_tasks while nothing has changed since.
C22_Witness ==
    /\ response # Nothing
    /\ response.method = "health_check"
    /\ response.returns = health_check
    /\ response.returns.status = "at_capacity"
    /\ Cardinality(active_tasks) > max_concurrent_tasks

\* Article task k of task t takes a step of its own.
WorkerStep(t, k) ==
    /\ routine'[t] = routine[t]
    /\ k \in DOMAIN batch_tasks[t]
    /\ batch_tasks'[t][k] # batch_tasks[t][k]

\* The coroutine of task t takes a step of its own while an article task of
\* the batch it awaits has not ended: cancel_task is called, the cancelled
\* coroutine is resumed, or the wait for the batch times out.
CancelStep(t) ==
    /\ routine'[t] # routine[t]
    /\ routine[t].pc = "batch_wait"
    /\ \E k \in DOMAIN batch_tasks[t] : batch_tasks[t][k].st # "done"

\* C23: an article task makes at most retry_count + 1 fetch attempts, one
\* after another, and none after it has returned; it returns an article or
\* None, an article from the attempt that succeeds, together with the one
\* record_success; record_failure is called when attempt retry_count + 1 has
\* failed, whatever the failures were, and the task then returns None; a
\* failed earlier attempt leaves the circuit breaker alone and is followed by
\* another attempt; a cancellation ends the article tasks without
\* record_failure and without another attempt.
C23_RetryProtocol ==
    [][\A t \in TaskIds :
         /\ \A k \in Workers : WorkerStep(t, k) =>
                LET w == batch_tasks[t][k]
                    w2 == batch_tasks'[t][k]
                    domain == routine[t].request.domain
                    succeeds == w2.st = "done" /\ w2.result = "item"
                    gives_up == w2.st = "done" /\ w.st = "fetching" /\ ~succeeds
                IN  /\ w.st # "done"
                    /\ w2.attempt <= retry_count
                    /\ w.st = "sleeping" =>
                           w2.st = "fetching" /\ w2.attempt = w.attempt + 1
                    /\ w2.st = "done" => w2.result \in {"item", "None"}
                    /\ succeeds =>
                           /\ w.st = "fetching"
                           /\ circuit_breaker' = record_success(circuit_breaker, domain)
                    /\ gives_up =>
                           /\ w.attempt = retry_count
                           /\ w2.result = "None"
                           /\ circuit_breaker' = record_failure(circuit_breaker, domain)
                    /\ w.st = "fetching" /\ w.attempt = retry_count => w2.st = "done"
                    /\ w.st # "new" /\ w2.st # "done" =>
                           circuit_breaker' = circuit_breaker
         /\ CancelStep(t) =>
                /\ circuit_breaker' = circuit_breaker
                /\ batch_tasks'[t] \in {batch_tasks[t], <<>>}]_vars

\* An article task, the only one of its task, has returned None after a
\* timeout, a ConnectionError and another exception among its retry_count + 1
\* failed attempts, and the domain, without failures before, has one.
C23_Witness ==
    \E t \in DOMAIN tasks :
        /\ routine[t].pc = "batch_wait"
        /\ routine[t].found_links = 1
        /\ batch_tasks[t][1].st = "done"
        /\ batch_tasks[t][1].result = "None"
        /\ error_stats.timeout_errors >= 1
        /\ error_stats.connection_errors >= 1
        /\ error_stats.general_errors >= 1
        /\ SumErrors(error_stats) = retry_count + 1
        /\ Get(circuit_breaker.failures, routine[t].request.domain, 0) = 1

\* gather() hands the results of the batch of task t to the coroutine in this
\* step.
BatchEnds(t) ==
    /\ routine[t].pc = "batch_wait"
    /\ ~routine[t].must_cancel
    /\ \A k \in DOMAIN batch_tasks[t] : batch_tasks[t][k].st = "done"
    /\ routine'[t] # routine[t]
    /\ ~routine'[t].must_cancel

Dispatch(t) ==
    \E k \in DOMAIN batch_tasks'[t] :
        /\ batch_tasks'[t][k].st = "new"
        /\ k \in DOMAIN batch_tasks[t] => batch_tasks'[t][k] # batch_tasks[t][k]

\* C25: the article tasks of a task exist only after its discovery has
\* returned, for a request of max_depth > 1 with links found; they are at
\* most min(max_concurrent_articles, 10) and their links are consecutive, in
\* the order found; article tasks are created only when every article task
\* of the batch before has ended, and for links that come after every link
\* of that batch, so that no link gets an article task twice.
C25_Batches ==
    /\ [](\A t \in TaskIds :
              LET r == routine[t]
                  batch == batch_tasks[t]
              IN  /\ Len(batch) <= Min(max_concurrent_articles, MaxBatchSize)
                  /\ batch # <<>> =>
                         /\ r.pc = "batch_wait"
                         /\ r.request.max_depth > 1
                         /\ r.found_links > 0
                         /\ \A k \in DOMAIN batch :
                                /\ batch[k].link = r.i + k - 1
                                /\ batch[k].link <= r.found_links)
    /\ [][\A t \in TaskIds : Dispatch(t) =>
              /\ \A k \in DOMAIN batch_tasks[t] : batch_tasks[t][k].st = "done"
              /\ \A k \in DOMAIN batch_tasks[t], k2 \in DOMAIN batch_tasks'[t] :
                     batch_tasks'[t][k2].link > batch_tasks[t][k].link
              /\ routine[t].pc = "batch_wait" =>
                     routine'[t].i = routine[t].i + Len(batch_tasks[t])]_vars

\* The second batch of a task is under way.
C25_Witness ==
    \E t \in DOMAIN tasks :
        /\ routine[t].pc = "batch_wait"
        /\ routine[t].i > 1
        /\ \E k \in DOMAIN batch_tasks[t] : batch_tasks[t][k].st = "fetching"

\* The coroutine of task t comes to the head of the batch loop in this
\* step: its discovery has returned the main page, or gather() has handed
\* over a batch.
BatchStart(t) ==
    \/ /\ routine[t].pc = "discovering"
       /\ ~routine[t].must_cancel
       /\ routine'[t] # routine[t]
       /\ ~routine'[t].must_cancel
       /\ Len(tasks'[t].results) > 0
    \/ BatchEnds(t)

\* C26: when the coroutine comes to the head of the batch loop with
\* elapsed = now - start_time >= the timeout budget, it creates no article
\* task, then or later: it finalizes in the same step and ends, the status
\* Partial with the timed-out entry in errors and without the entry of the
\* outermost exception handler.  Article tasks are created only with elapsed
\* below the budget.
C26_DeadlineGate ==
    [][\A t \in TaskIds :
         /\ (/\ BatchStart(t)
             /\ now - routine[t].start_time
                    >= routine[t].request.timeout_minutes * SecondsPerMinute)
            => /\ batch_tasks'[t] = <<>>
               /\ routine'[t].pc = "done"
               /\ tasks'[t].status = PARTIAL
               /\ HasError(tasks'[t], TimedOutError)
               /\ ~HasError(tasks'[t], ExecutionError)
         /\ Dispatch(t) =>
                now - routine'[t].start_time
                    < routine'[t].request.timeout_minutes * SecondsPerMinute]_vars

\* A task has ended timed out after its first batch, with links left that
\* got no article task.
C26_Witness ==
    \E t \in DOMAIN tasks :
        /\ routine[t].pc = "done"
        /\ tasks[t].status = PARTIAL
        /\ HasError(tasks[t], TimedOutError)
        /\ tasks[t].completed_items + tasks[t].failed_items
               = Min(max_concurrent_articles, MaxBatchSize) + 1
        /\ tasks[t].total_items > tasks[t].completed_items + tasks[t].failed_items

\* C27: article tasks are created only if at least 60 s of the budget are
\* left for each of them: with remaining = budget - elapsed and n the article
\* tasks of the batch, remaining / n >= 60, and the timeout_seconds handed to
\* each is min(180, remaining // n), hence between 60 and 180.
C27_PerItemBudget ==
    [][\A t \in TaskIds : Dispatch(t) =>
           LET r == routine'[t]
               remaining == r.request.timeout_minutes * SecondsPerMinute
                                - (now - r.start_time)
               n == Len(batch_tasks'[t])
           IN  /\ remaining >= MinRemainingSeconds * n
               /\ \A k \in DOMAIN batch_tasks'[t] :
                      LET w == batch_tasks'[t][k]
                      IN  /\ w.timeout_seconds
                                 = Min(MaxArticleTimeout, remaining \div n)
                          /\ w.timeout_seconds >= MinRemainingSeconds
                          /\ w.timeout_seconds <= MaxArticleTimeout]_vars

\* C28: within one article task the timeout of an attempt never grows and
\* never exceeds 180 s: after an attempt that timed out and is retried it is
\* max(60, half the timeout before), and not more than before; after a
\* ConnectionError or another exception it is what it was.
C28_TimeoutShrinks ==
    [][\A t \in TaskIds, k \in Workers : WorkerStep(t, k) =>
           LET w == batch_tasks[t][k]
               w2 == batch_tasks'[t][k]
           IN  /\ w2.timeout_seconds <= MaxArticleTimeout
               /\ w2.timeout_seconds <= w.timeout_seconds
               /\ (w.st = "fetching" /\ w2.st = "sleeping") =>
                      IF now >= w.due
                      THEN w2.timeout_seconds
                               = Max(MinRetryTimeout, w.timeout_seconds \div 2)
                      ELSE w2.timeout_seconds = w.timeout_seconds]_vars

\* C29: when the wait for a batch times out, every article task of the batch
\* that has not ended is cancelled and failed_items grows by exactly their
\* number; no further batch is created and the task is not aborted: it
\* finalizes, with the results it had, and without the entry of the
\* outermost exception handler.
C29_BatchTimeout ==
    [][\A t \in TaskIds :
         LET running == {k \in DOMAIN batch_tasks[t] : batch_tasks[t][k].st # "done"}
         IN  (/\ routine[t].pc = "batch_wait"
              /\ ~routine[t].must_cancel
              /\ now >= routine[t].due
              /\ running # {}
              /\ routine'[t] # routine[t]
              /\ ~routine'[t].must_cancel)
             => /\ tasks'[t].failed_items
                       = tasks[t].failed_items + Cardinality(running)
                /\ batch_tasks'[t] = <<>>
                /\ routine'[t].pc = "done"
                /\ tasks'[t].results = tasks[t].results
                /\ ~HasError(tasks'[t], ExecutionError)]_vars

\* C30: a task that has ended Completed has failed_items = 0,
\* completed_items = total_items and a progress of 100.
C30_CompletedAll ==
    \A t \in DOMAIN tasks :
        (routine[t].pc = "done" /\ tasks[t].status = COMPLETED)
        => /\ tasks[t].failed_items = 0
           /\ tasks[t].completed_items = tasks[t].total_items
           /\ tasks[t].progress.num = 100 * tasks[t].progress.den

\* C31: in every state between two steps, for every task, completed_items is
\* the length of results, and the first entry of results, if there is one,
\* is the main page with depth 0: an entry and its count arrive in one step.
C31_ResultsCounted ==
    \A t \in DOMAIN tasks :
        /\ tasks[t].completed_items = Len(tasks[t].results)
        /\ tasks[t].results # <<>> =>
               /\ tasks[t].results[1] = main_page_data
               /\ tasks[t].results[1].depth = 0

\* A task is running with the main page and two articles in results, and a
\* further batch in flight.
C31_Witness ==
    \E t \in DOMAIN tasks :
        /\ tasks[t].status = RUNNING
        /\ routine[t].pc = "batch_wait"
        /\ Len(tasks[t].results) = 3
        /\ tasks[t].results[2].depth = 1
        /\ \E k \in DOMAIN batch_tasks[t] : batch_tasks[t][k].st = "fetching"

\* C32: in every state between two steps, for every task, completed_at is
\* set if and only if the status is Completed, Failed, Partial or Cancelled;
\* it is not set while the task is Pending or Running.
C32_CompletedAtIffTerminal ==
    \A t \in DOMAIN tasks :
        /\ tasks[t].completed_at # None <=> tasks[t].status \in TerminalStatus
        /\ tasks[t].status \in {PENDING, RUNNING} => tasks[t].completed_at = None

\* One task has ended by itself after the first minute, stamped, while the
\* next one, queued at the task semaphore since, is Pending without a stamp.
C32_Witness ==
    \E t, u \in DOMAIN tasks :
        /\ routine[t].pc = "done"
        /\ tasks[t].status \in {COMPLETED, PARTIAL}
        /\ tasks[t].completed_at >= SecondsPerMinute
        /\ routine[u].pc = "sem_wait"
        /\ tasks[u].status = PENDING
        /\ tasks[u].completed_at = None

\* Article task k of task t begins a fetch attempt in this step: its first,
\* at once or after the wait for a permit, or the next after a sleep.
BeginsAttempt(t, k) ==
    /\ k \in DOMAIN batch_tasks[t]
    /\ k \in DOMAIN batch_tasks'[t]
    /\ batch_tasks[t][k].st \in {"new", "sem_wait", "sleeping"}
    /\ batch_tasks'[t][k].st = "fetching"

\* C33: whenever an article task begins a fetch attempt, the domain of its
\* URL is not blocked at that moment: it is not in blocked_domains with its
\* cooldown still running.
C33_NoAttemptWhileBlocked ==
    [][\A t \in TaskIds, k \in Workers : BeginsAttempt(t, k) =>
           ~is_blocked(circuit_breaker', routine[t].request.domain)]_vars

\* The wait of the coroutine of task t for its batch ends in this step, with
\* every result or by the timeout of the wait, and not by a cancellation of
\* the task.
WaitEnds(t) ==
    /\ routine[t].pc = "batch_wait"
    /\ ~routine[t].must_cancel
    /\ routine'[t] # routine[t]
    /\ ~routine'[t].must_cancel

\* C34: when the wait for a batch ends, by the timeout of the wait as well,
\* the article of every article task of the batch that has returned one is
\* in results afterwards, and results and completed_items have grown by the
\* number of these articles.
C34_NoFetchLost ==
    [][\A t \in TaskIds : WaitEnds(t) =>
           LET items == {k \in DOMAIN batch_tasks[t] :
                             batch_tasks[t][k].result = "item"}
           IN  /\ Len(tasks'[t].results)
                      = Len(tasks[t].results) + Cardinality(items)
               /\ tasks'[t].completed_items
                      = tasks[t].completed_items + Cardinality(items)
               /\ \A k \in items : \E j \in DOMAIN tasks'[t].results :
                      tasks'[t].results[j] = article_data(batch_tasks[t][k])]_vars

\* The coroutines inside `async with self.task_semaphore`, and the article
\* tasks inside `async with self.article_semaphore` (in a fetch attempt or in
\* the sleep before the next one).
InTaskSection ==
    {t \in TaskIds : routine[t].pc \in {"discovering", "batch_wait"}}

InArticleSection ==
    {p \in TaskIds \X Workers :
        /\ p[2] \in DOMAIN batch_tasks[p[1]]
        /\ batch_tasks[p[1]][p[2]].st \in {"fetching", "sleeping"}}

\* C35: in every state the permits of the task semaphore that are taken are
\* as many as the coroutines inside its section, at most
\* max_concurrent_tasks, and the permits of the article semaphore that are
\* taken are as many as the article tasks inside their attempt loop, at most
\* max_concurrent_articles; when every task submitted has ended, both
\* semaphores have all their permits.
C35_NoPermitLeak ==
    /\ max_concurrent_tasks - task_semaphore = Cardinality(InTaskSection)
    /\ Cardinality(InTaskSection) <= max_concurrent_tasks
    /\ max_concurrent_articles - article_semaphore = Cardinality(InArticleSection)
    /\ Cardinality(InArticleSection) <= max_concurrent_articles
    /\ (\A t \in DOMAIN tasks : routine[t].pc \in {"done", "cancelled"})
           => /\ task_semaphore = max_concurrent_tasks
              /\ article_semaphore = max_concurrent_articles

\* Every task has ended, one cancelled while its article task was in a fetch
\* and one by the timeout of its batch wait with its article task in a
\* fetch, and both semaphores are full.
C35_Witness ==
    /\ \E t, u \in DOMAIN tasks :
           /\ routine[t].pc = "cancelled"
           /\ routine[u].pc = "done"
           /\ tasks[u].status = PARTIAL
           /\ HasError(tasks[u], TimedOutError)
    /\ \A t \in DOMAIN tasks : routine[t].pc \in {"done", "cancelled"}
    /\ error_stats.cancelled_tasks = 2
    /\ task_semaphore = max_concurrent_tasks
    /\ article_semaphore = max_concurrent_articles

\* C36: in every state of the circuit breaker, whatever record_failure,
\* record_success and is_blocked were called on whatever domains: every
\* failure count is >= 0, a domain with a failure count >= failure_threshold
\* is in blocked_domains, and a domain in blocked_domains has a failure
\* count >= 1.
C36_BreakerInvariants ==
    /\ \A d \in DOMAIN circuit_breaker.failures :
           /\ circuit_breaker.failures[d] >= 0
           /\ circuit_breaker.failures[d] >= failure_threshold
                  => d \in circuit_breaker.blocked_domains
    /\ \A d \in circuit_breaker.blocked_domains :
           /\ d \in DOMAIN circuit_breaker.failures
           /\ circuit_breaker.failures[d] >= 1

\* One domain is blocked with more failures than the threshold, and another
\* is still blocked while successes have brought its count down to 1; a
\* cooldown has passed since the start.
C36_Witness ==
    \E d, e \in circuit_breaker.blocked_domains :
        /\ circuit_breaker.failures[d] > failure_threshold
        /\ circuit_breaker.failures[e] = 1
        /\ now > timeout_seconds

\* C37: start_time is the time of the first step of the coroutine, which is
\* the time of the submission, and the permit of the task semaphore, got
\* then or later, leaves it as it is.  When the discovery of a task that got
\* its permit with now - start_time >= its timeout budget returns the main
\* page, the coroutine creates no article task and ends in that step, the
\* status Partial, the timed-out entry in errors, the main page the one
\* result.
C37_QueuedTimeCounts ==
    [][\A t \in TaskIds :
         /\ (routine[t].pc = "created" /\ routine'[t].pc \in {"sem_wait", "discovering"})
                => routine'[t].start_time = now
         /\ (routine[t].pc = "sem_wait" /\ routine'[t].pc = "discovering")
                => routine'[t].start_time = routine[t].start_time
         /\ (/\ routine[t].pc = "discovering"
             /\ ~routine[t].must_cancel
             /\ routine'[t] # routine[t]
             /\ ~routine'[t].must_cancel
             /\ Len(tasks'[t].results) > 0
             /\ (routine[t].due - MainPageTimeout) - routine[t].start_time
                    >= routine[t].request.timeout_minutes * SecondsPerMinute)
            => /\ batch_tasks'[t] = <<>>
               /\ routine'[t].pc = "done"
               /\ tasks'[t].status = PARTIAL
               /\ HasError(tasks'[t], TimedOutError)
               /\ tasks'[t].results = <<main_page_data>>]_vars

\* A task has ended Partial, timed out, with the main page and a link that
\* got no article task, at the very time the task before it ended and gave
\* up the permit: its whole budget went by in the queue.
C37_Witness ==
    \E t, u \in DOMAIN tasks :
        /\ t < u
        /\ routine[t].pc = "done"
        /\ routine[u].pc = "done"
        /\ tasks[t].completed_at > 0
        /\ tasks[u].completed_at = tasks[t].completed_at
        /\ tasks[u].status = PARTIAL
        /\ HasError(tasks[u], TimedOutError)
        /\ tasks[u].total_items = 2
        /\ tasks[u].completed_items = 1
        /\ tasks[u].failed_items = 0

\* C38 as stated: active_tasks never holds more than max_concurrent_tasks
\* entries, and what health_check has returned has active_tasks <=
\* max_concurrent_tasks and available_task_slots >= 0.
C38_ActiveBounded ==
    /\ Cardinality(active_tasks) <= max_concurrent_tasks
    /\ (response # Nothing /\ response.method = "health_check")
           => /\ response.returns.active_tasks <= max_concurrent_tasks
              /\ response.returns.available_task_slots >= 0

\* The tasks submitted whose coroutine has not ended and which cancel_task
\* has not been called on.
Live ==
    {t \in DOMAIN tasks :
        /\ routine[t].pc \in {"created", "sem_wait", "discovering", "batch_wait"}
        /\ ~routine[t].must_cancel}

\* C38: at most max_concurrent_tasks coroutines are inside the section of
\* the task semaphore; active_tasks holds the tasks submitted whose coroutine
\* has not ended and which were not cancelled, those queued at the semaphore
\* as well; health_check returns its size as active_tasks and
\* max_concurrent_tasks minus its size as available_task_slots, which is
\* negative exactly when more tasks are active than max_concurrent_tasks.
C38_ActiveTasks ==
    /\ [](/\ Cardinality(InTaskSection) <= max_concurrent_tasks
          /\ active_tasks = Live)
    /\ [][HealthCheckReturns =>
             /\ response'.returns.active_tasks = Cardinality(Live)
             /\ response'.returns.available_task_slots
                    = max_concurrent_tasks - Cardinality(Live)
             /\ (response'.returns.available_task_slots < 0)
                    = (Cardinality(active_tasks) > max_concurrent_tasks)]_vars

\* health_check has returned a negative available_task_slots, with one task
\* inside the section of the task semaphore and one queued behind it, and
\* nothing has changed since.
C38_Witness ==
    /\ response # Nothing
    /\ response.method = "health_check"
    /\ response.returns = health_check
    /\ response.returns.available_task_slots < 0
    /\ \E t, u \in active_tasks :
           /\ routine[t].pc \in {"discovering", "batch_wait"}
           /\ routine[u].pc = "sem_wait"

====
